---- MODULE Spec2Model ----
(***************************************************************************)
(* A model of the crawl scheduler of web-crawler-ai: the WebCrawlerAI      *)
(* class (crawlUrl, waitForSlot, crawlBatch, getNextUrl,                   *)
(* scheduleChildUrls, init, close), the URL normaliser and the link        *)
(* prioritiser it relies on, and the POST /crawl route that drives it.     *)
(*                                                                         *)
(* JavaScript runs each handler to its next `await` without interruption,  *)
(* so every action below is one such synchronous stretch of one caller.    *)
(***************************************************************************)
EXTENDS Integers, Sequences, FiniteSets, TLC

----------------------------------------------------------------------------
(* Bounds of the model *)

NumCallers == 2

MaxIndexCalls == 3

Callers == 1..NumCallers

----------------------------------------------------------------------------
(* URLs.  A URL string is modelled by its parsed parts; valid = FALSE is a  *)
(* string that `new URL` rejects.                                           *)

MkUrl(h, p, q, f) == [valid |-> TRUE, host |-> h, path |-> p, query |-> q, hash |-> f]

Null == [valid |-> FALSE, host |-> "", path |-> "", query |-> <<>>, hash |-> ""]

Garbage == [valid |-> FALSE, host |-> "not a url", path |-> "", query |-> <<>>, hash |-> ""]

trackingParams == {"utm_source", "utm_medium", "utm_campaign", "utm_term",
                   "utm_content", "fbclid", "gclid", "ref", "source"}

\* String.prototype.toLowerCase on the names that occur in the model
toLowerCase(s) ==
    CASE s = "/A" -> "/a"
      [] s = "Q" -> "q"
      [] s = "UTM_SOURCE" -> "utm_source"
      [] s = "/Login" -> "/login"
      [] s = "F" -> "f"
      [] s = "Running" -> "running"
      [] s = "Shoes" -> "shoes"
      [] s = "Cr" -> "cr"
      [] s = "C" -> "c"
      [] OTHER -> s

\* code-unit order of the query parameter names of the model
CodeUnitRank(s) ==
    CASE s = "Q" -> 1
      [] s = "UTM_SOURCE" -> 2
      [] s = "q" -> 3
      [] s = "ref" -> 4
      [] s = "utm_source" -> 5
      [] OTHER -> 6

\* Array.prototype.sort and URLSearchParams.sort are stable: with keys[i] the
\* sort key of the element at place i (ascending), that element goes behind
\* every element of smaller key and behind the elements of equal key that stood
\* before it
SortedPlace(keys, i) ==
    1 + Cardinality({j \in 1..Len(keys) :
                        \/ keys[j] < keys[i]
                        \/ (keys[j] = keys[i] /\ j < i)})

StableSort(s, keys) ==
    [k \in 1..Len(s) |-> s[CHOOSE i \in 1..Len(s) : SortedPlace(keys, i) = k]]

SortParams(q) == StableSort(q, [i \in 1..Len(q) |-> CodeUnitRank(q[i])])

normalize(u) ==
    IF ~u.valid THEN Null
    ELSE LET kept == SelectSeq(u.query, LAMBDA p : p \notin trackingParams)
             sorted == SortParams(kept)
         IN [valid |-> TRUE,
             host  |-> toLowerCase(u.host),
             path  |-> toLowerCase(IF u.path = "" THEN "/" ELSE u.path),
             query |-> [i \in 1..Len(sorted) |-> toLowerCase(sorted[i])],
             hash  |-> ""]

isValid(u) == u.valid

getDomain(u) == IF u.valid THEN u.host ELSE "null"

----------------------------------------------------------------------------
(* The web the crawler is pointed at *)

Site == "example.com"
Other == "other.org"

Home == MkUrl(Site, "/", <<>>, "")
PageA == MkUrl(Site, "/a", <<>>, "")
PageAUpper == MkUrl(Site, "/A", <<>>, "")
PageAFragment == MkUrl(Site, "/a", <<>>, "top")
PageB == MkUrl(Other, "/b", <<>>, "")
Login == MkUrl(Site, "/login", <<>>, "")

\* a link as extracted from a page: its absolute URL and the three scores
\* that depend on its anchor text, URL shape and context only
MkLink(u, t, s, c) == [url |-> u, textQuality |-> t, urlStructure |-> s, contextRelevance |-> c]

\* outbound links of each page, in document order
PageLinks(n) ==
    CASE n = Home  -> << MkLink(PageB, 3, 4, 1), MkLink(Login, 3, 6, 0),
                         MkLink(PageAUpper, 0, 4, 0), MkLink(PageAFragment, 0, 4, 0) >>
      [] n = PageA -> << MkLink(PageB, 3, 4, 1), MkLink(Home, 1, 4, 0) >>
      [] n = PageB -> << MkLink(PageA, 0, 4, 0) >>
      [] OTHER -> << >>

InputUrls == {Home, PageAUpper, PageB, Garbage}

NormUrls == {normalize(u) : u \in {Home, PageA, PageAUpper, PageAFragment, PageB, Login}}

----------------------------------------------------------------------------
(* LinkAnalyzer *)

internalWeight == 10

externalWeight == 2

\* the paths of the model that one of the path patterns of avoidPatterns
\* matches (/\/login/i ... /\/api\//i); "/api" itself is matched by none
avoidPaths == {"/login", "/register", "/signup", "/cart", "/checkout", "/account",
               "/profile", "/settings", "/admin", "/wp-admin", "/api/v1"}

\* the paths of the model that end in .pdf, .doc, .docx, .zip or .exe
avoidFiles == {"/file.pdf"}

\* the patterns are tested on the whole link string, without regard to case;
\* the extension pattern is anchored at the end of the string
shouldAvoidUrl(u) ==
    \/ toLowerCase(u.path) \in avoidPaths
    \/ (toLowerCase(u.path) \in avoidFiles /\ u.query = <<>> /\ u.hash = "")

Max(a, b) == IF a >= b THEN a ELSE b

Min(a, b) == IF a <= b THEN a ELSE b

\* calculatePriority with the same domain bonus for every link
calculatePriorityFlatBonus(link, baseDomain) ==
    IF shouldAvoidUrl(link.url) THEN 0
    ELSE Max(externalWeight + link.textQuality + link.urlStructure + link.contextRelevance, 0)

calculatePriority(link, baseDomain) ==
    IF shouldAvoidUrl(link.url) THEN 0
    ELSE Max((IF getDomain(link.url) = baseDomain THEN internalWeight ELSE externalWeight)
             + link.textQuality + link.urlStructure + link.contextRelevance, 0)

\* Array.prototype.sort((a, b) => b.priority - a.priority): stable, descending
SortByPriority(s) == StableSort(s, [i \in 1..Len(s) |-> 0 - s[i].priority])

prioritizeLinks(links, baseUrl) ==
    LET baseDomain == getDomain(baseUrl)
        scoredLinks == [i \in 1..Len(links) |->
                          [url |-> links[i].url,
                           textQuality |-> links[i].textQuality,
                           urlStructure |-> links[i].urlStructure,
                           contextRelevance |-> links[i].contextRelevance,
                           priority |-> calculatePriority(links[i], baseDomain)]]
    IN SortByPriority(SelectSeq(scoredLinks,
                                LAMBDA l : l.priority > 0 /\ isValid(l.url)))

----------------------------------------------------------------------------
(* TextProcessor.  A text is the sequence of its words (the pieces between  *)
(* white space); the word "" stands for an empty field inside a joined text.*)

\* the characters of the lower-case words and of the stems of the model
Chars(w) ==
    CASE w = "running" -> <<"r", "u", "n", "n", "i", "n", "g">>
      [] w = "run"     -> <<"r", "u", "n">>
      [] w = "shoes"   -> <<"s", "h", "o", "e", "s">>
      [] w = "shoe"    -> <<"s", "h", "o", "e">>
      [] w = "web"     -> <<"w", "e", "b">>
      [] w = "crawler" -> <<"c", "r", "a", "w", "l", "e", "r">>
      [] w = "crawl"   -> <<"c", "r", "a", "w", "l">>
      [] w = "trawl"   -> <<"t", "r", "a", "w", "l">>
      [] w = "brawler" -> <<"b", "r", "a", "w", "l", "e", "r">>
      [] w = "the"     -> <<"t", "h", "e">>
      [] w = "cr"      -> <<"c", "r">>
      [] w = "a"       -> <<"a">>
      [] w = "c"       -> <<"c">>
      [] OTHER         -> <<>>

\* String.prototype.length
StrLen(w) == Len(Chars(w))

\* String.prototype.startsWith
startsWith(w, prefix) ==
    /\ StrLen(prefix) <= StrLen(w)
    /\ SubSeq(Chars(w), 1, StrLen(prefix)) = Chars(prefix)

\* String.prototype.endsWith
endsWith(w, suffix) ==
    /\ StrLen(suffix) <= StrLen(w)
    /\ SubSeq(Chars(w), StrLen(w) - StrLen(suffix) + 1, StrLen(w)) = Chars(suffix)

\* the word contains the piece somewhere
includes(w, piece) ==
    \E i \in 1..(StrLen(w) - StrLen(piece) + 1) :
       SubSeq(Chars(w), i, i + StrLen(piece) - 1) = Chars(piece)

\* the stop words that occur in the model
stopWords == {"a", "the"}

\* natural.PorterStemmer.stem on the words of the model
stem(w) ==
    CASE w = "running" -> "run"
      [] w = "shoes" -> "shoe"
      [] OTHER -> w

minTokenLength == 2

maxTokenLength == 50

\* TextProcessor.tokenize as SearchEngine.tokenizeText calls it: lower-case,
\* split, keep the tokens of 2 to 50 characters, drop stop words, stem
tokenize(text) ==
    LET lowered == [i \in 1..Len(text) |-> toLowerCase(text[i])]
        sized == SelectSeq(lowered, LAMBDA w : /\ StrLen(w) >= minTokenLength
                                                /\ StrLen(w) <= maxTokenLength)
        kept == SelectSeq(sized, LAMBDA w : w \notin stopWords)
    IN [i \in 1..Len(kept) |-> stem(kept[i])]

\* the elements of a sequence, each once, in the order of first occurrence
\* (the iteration order of a Set the elements were added to)
Distinct(seq) ==
    LET numbered == [i \in 1..Len(seq) |-> [i |-> i, v |-> seq[i]]]
        first == SelectSeq(numbered, LAMBDA r : \A j \in 1..(r.i - 1) : seq[j] # r.v)
    IN [k \in 1..Len(first) |-> first[k].v]

Range(seq) == {seq[i] : i \in 1..Len(seq)}

----------------------------------------------------------------------------
(* SearchEngine.  A Map is the sequence of its entries [key, value] in       *)
(* insertion order; a Set is the sequence of its elements in insertion order.*)

EmptyMap == <<>>

MapKeys(m) == {m[i].key : i \in 1..Len(m)}

MapHas(m, k) == k \in MapKeys(m)

MapGet(m, k) == m[CHOOSE i \in 1..Len(m) : m[i].key = k].value

\* Map.prototype.set: a present key keeps its place
MapSet(m, k, v) ==
    IF MapHas(m, k)
    THEN [i \in 1..Len(m) |-> IF m[i].key = k THEN [key |-> k, value |-> v] ELSE m[i]]
    ELSE Append(m, [key |-> k, value |-> v])

\* new Map(entries): of the entries of one key the first gives the place and
\* the last gives the value
MapFromEntries(entries) ==
    LET keys == Distinct([i \in 1..Len(entries) |-> entries[i].key])
        last(k) == CHOOSE i \in 1..Len(entries) :
                      /\ entries[i].key = k
                      /\ \A j \in (i + 1)..Len(entries) : entries[j].key # k
    IN [n \in 1..Len(keys) |-> [key |-> keys[n], value |-> entries[last(keys[n])].value]]

defaultDefaultLimit == 10

defaultMaxLimit == 100

defaultMinQueryLength == 2

titleBoost == 10

descriptionBoost == 5

contentBoost == 2

unlistedFieldBoost == 1

\* new SearchEngine() under config.search = searchConfig; 0 stands for a
\* setting that is absent or 0
NewSearchEngine(searchConfig) ==
    [index |-> EmptyMap,
     invertedIndex |-> EmptyMap,
     termFrequency |-> EmptyMap,
     documentFrequency |-> EmptyMap,
     contentStore |-> EmptyMap,
     totalDocuments |-> 0,
     defaultLimit |-> IF searchConfig.defaultLimit = 0 THEN defaultDefaultLimit
                      ELSE searchConfig.defaultLimit,
     maxLimit |-> IF searchConfig.maxLimit = 0 THEN defaultMaxLimit
                  ELSE searchConfig.maxLimit,
     minQueryLength |-> defaultMinQueryLength,
     enableFuzzySearch |-> searchConfig.enableFuzzySearch]

\* enableFuzzySearch is TRUE for a configuration that does not set it to false
NoSearchConfig == [defaultLimit |-> 0, maxLimit |-> 0, enableFuzzySearch |-> TRUE]

\* a content object that makes `content.url` throw
NullContent == [isNull |-> TRUE]

\* a document as the content extractor delivers it.  publishAge is the number
\* of days from publishDate to now, -1 when there is no publishDate; headings
\* and keywords are absent
MkContent(title, description, paragraphs, topics, quality, type, age, words) ==
    [isNull |-> FALSE, title |-> title, description |-> description,
     paragraphs |-> paragraphs, topics |-> topics, qualityScore |-> quality,
     contentType |-> type, publishAge |-> age, wordCount |-> words]

\* Object.values(searchableFields).join(' '): the six field texts in the order
\* title, description, headings, content, keywords, topics; an empty field
\* leaves an empty piece between two blanks
JoinFields(fields) ==
    LET piece(i) == IF fields[i] = <<>> THEN <<"">> ELSE fields[i]
    IN piece(1) \o piece(2) \o piece(3) \o piece(4) \o piece(5) \o piece(6)

\* how often the term occurs in the text
Occurrences(terms, t) == Cardinality({i \in 1..Len(terms) : terms[i] = t})

\* lines 78-89: the posting lists and the document frequencies after the
\* forEach over allTerms
UpdateInvertedIndex(invertedIndex, allTerms, contentId) ==
    LET fresh == SelectSeq(allTerms, LAMBDA t : ~MapHas(invertedIndex, t))
        grown == invertedIndex \o [i \in 1..Len(fresh) |-> [key |-> fresh[i], value |-> <<>>]]
    IN [i \in 1..Len(grown) |->
          IF grown[i].key \in Range(allTerms) /\ contentId \notin Range(grown[i].value)
          THEN [key |-> grown[i].key, value |-> Append(grown[i].value, contentId)]
          ELSE grown[i]]

UpdateDocumentFrequency(documentFrequency, invertedIndex, allTerms, contentId) ==
    LET fresh == SelectSeq(allTerms, LAMBDA t : ~MapHas(invertedIndex, t))
        grown == documentFrequency \o [i \in 1..Len(fresh) |-> [key |-> fresh[i], value |-> 0]]
        Counted(t) == /\ MapHas(invertedIndex, t)
                      /\ contentId \in Range(MapGet(invertedIndex, t))
    IN [i \in 1..Len(grown) |->
          IF grown[i].key \in Range(allTerms) /\ ~Counted(grown[i].key)
          THEN [key |-> grown[i].key, value |-> grown[i].value + 1]
          ELSE grown[i]]

\* indexContent(contentId, content) on the engine se: the engine afterwards
indexContent(se, contentId, content) ==
    IF content.isNull THEN se
    ELSE
    LET title == tokenize(content.title)
        description == tokenize(content.description)
        body == tokenize(content.paragraphs)
        topics == tokenize(content.topics)
        allTerms == Distinct(title \o description \o body \o topics)
        termFreq == [i \in 1..Len(allTerms) |->
                       [key |-> allTerms[i],
                        value |-> titleBoost * Occurrences(title, allTerms[i])
                                  + descriptionBoost * Occurrences(description, allTerms[i])
                                  + contentBoost * Occurrences(body, allTerms[i])
                                  + unlistedFieldBoost * Occurrences(topics, allTerms[i])]]
        allText == JoinFields(<<content.title, content.description, <<>>,
                                content.paragraphs, <<>>, content.topics>>)
    IN [se EXCEPT
          !.contentStore = MapSet(@, contentId,
                                  [title |-> content.title,
                                   qualityScore |-> content.qualityScore,
                                   contentType |-> content.contentType,
                                   publishAge |-> content.publishAge,
                                   wordCount |-> content.wordCount,
                                   topics |-> content.topics]),
          !.invertedIndex = UpdateInvertedIndex(@, allTerms, contentId),
          !.documentFrequency = UpdateDocumentFrequency(@, se.invertedIndex, allTerms,
                                                        contentId),
          !.termFrequency = MapSet(@, contentId, termFreq),
          !.index = MapSet(@, contentId,
                           [title |-> title, description |-> description,
                            allText |-> [i \in 1..Len(allText) |-> toLowerCase(allText[i])],
                            terms |-> allTerms, termCount |-> Len(allTerms)]),
          !.totalDocuments = @ + 1]

\* 1000 * Math.log(n), rounded, for the document counts of the model
Ln1000(n) ==
    CASE n <= 1 -> 0
      [] n = 2 -> 693
      [] n = 3 -> 1099
      [] n = 4 -> 1386
      [] n = 5 -> 1609
      [] n = 6 -> 1792
      [] n = 7 -> 1946
      [] n = 8 -> 2079
      [] n = 9 -> 2197
      [] OTHER -> 2303

\* a query argument: a string (the sequence of its words), or no value at all
\* (undefined, null, ''), or a non-zero number
StringQuery(words) == [kind |-> "string", words |-> words]

MissingQuery == [kind |-> "missing", words |-> <<>>]

NumberQuery == [kind |-> "number", words |-> <<>>]

\* query.length of a string query: its characters and the blanks between words
RECURSIVE SumLen(_)
SumLen(words) ==
    IF words = <<>> THEN 0
    ELSE StrLen(toLowerCase(Head(words))) + SumLen(Tail(words))

QueryLength(query) ==
    IF query.words = <<>> THEN 0 ELSE SumLen(query.words) + Len(query.words) - 1

NoFilters == [contentType |-> "", minQuality |-> 0, maxAge |-> 0, minWordCount |-> 0,
              topics |-> <<>>]

\* an options argument; limit 0 and offset 0 stand for absent or 0, limitNaN
\* for a limit that is not a number
MkOptions(limit, offset, filters) ==
    [isNull |-> FALSE, limit |-> limit, limitNaN |-> FALSE, offset |-> offset,
     filters |-> filters]

NullOptions == [isNull |-> TRUE, limit |-> 0, limitNaN |-> FALSE, offset |-> 0,
                filters |-> NoFilters]

NaNLimitOptions == [isNull |-> FALSE, limit |-> 0, limitNaN |-> TRUE, offset |-> 0,
                    filters |-> NoFilters]

\* Array.prototype.slice(start, end)
slice(seq, start, end) ==
    LET len == Len(seq)
        from == IF start < 0 THEN Max(len + start, 0) ELSE Min(start, len)
        to == IF end < 0 THEN Max(len + end, 0) ELSE Min(end, len)
    IN SubSeq(seq, from + 1, to)

RECURSIVE Flatten(_)
Flatten(seqs) == IF seqs = <<>> THEN <<>> ELSE Head(seqs) \o Flatten(Tail(seqs))

\* calculateStringSimilarity, as the fraction num / den
calculateStringSimilarity(str1, str2) ==
    IF str1 = str2 THEN [num |-> 1, den |-> 1]
    ELSE IF StrLen(str1) = 0 \/ StrLen(str2) = 0 THEN [num |-> 0, den |-> 1]
    ELSE LET longer == IF StrLen(str1) > StrLen(str2) THEN str1 ELSE str2
             shorter == IF StrLen(str1) > StrLen(str2) THEN str2 ELSE str1
             distance == Cardinality({i \in 1..StrLen(shorter) :
                                         Chars(longer)[i] # Chars(shorter)[i]})
                         + StrLen(longer) - StrLen(shorter)
         IN [num |-> StrLen(longer) - distance, den |-> StrLen(longer)]

\* findSimilarTerms: similarity >= 0.8
findSimilarTerms(se, term) ==
    LET keys == [i \in 1..Len(se.invertedIndex) |-> se.invertedIndex[i].key]
        Similar(t) == /\ t # term
                      /\ StrLen(t) >= StrLen(term) - 1
                      /\ LET sim == calculateStringSimilarity(term, t)
                         IN 10 * sim.num >= 8 * sim.den
    IN SelectSeq(keys, Similar)

\* getCandidateDocuments, in the insertion order of the Set
getCandidateDocuments(se, queryTerms) ==
    LET Postings(t) == IF MapHas(se.invertedIndex, t) THEN MapGet(se.invertedIndex, t)
                       ELSE <<>>
        OfSimilar(t) == IF se.enableFuzzySearch /\ StrLen(t) > 3
                        THEN LET sim == findSimilarTerms(se, t)
                             IN Flatten([i \in 1..Len(sim) |-> Postings(sim[i])])
                        ELSE <<>>
    IN Distinct(Flatten([i \in 1..Len(queryTerms) |->
                            Postings(queryTerms[i]) \o OfSimilar(queryTerms[i])]))

\* a passesFilters that does not look at the content type
passesFiltersAnyType(content, filters) ==
    /\ ~(filters.minQuality # 0 /\ content.qualityScore < filters.minQuality)
    /\ ~(filters.maxAge # 0 /\ content.publishAge # -1
         /\ content.publishAge > filters.maxAge)
    /\ ~(filters.minWordCount # 0 /\ content.wordCount < filters.minWordCount)
    /\ ~(Len(filters.topics) > 0
         /\ ~\E i \in 1..Len(filters.topics) : filters.topics[i] \in Range(content.topics))

\* passesFilters
passesFilters(content, filters) ==
    /\ ~(filters.contentType # "" /\ content.contentType # filters.contentType)
    /\ ~(filters.minQuality # 0 /\ content.qualityScore < filters.minQuality)
    /\ ~(filters.maxAge # 0 /\ content.publishAge # -1
         /\ content.publishAge > filters.maxAge)
    /\ ~(filters.minWordCount # 0 /\ content.wordCount < filters.minWordCount)
    /\ ~(Len(filters.topics) > 0
         /\ ~\E i \in 1..Len(filters.topics) : filters.topics[i] \in Range(content.topics))

\* the matches of new RegExp(phrase, 'g') in the text: the phrase may begin
\* inside a word and end inside a word
PhraseMatches(queryTerms, allText) ==
    LET k == Len(queryTerms)
        At(i) == IF k = 1 THEN includes(allText[i], queryTerms[1])
                 ELSE /\ endsWith(allText[i], queryTerms[1])
                      /\ \A j \in 2..(k - 1) : allText[i + j - 1] = queryTerms[j]
                      /\ startsWith(allText[i + k - 1], queryTerms[k])
    IN Cardinality({i \in 1..(Len(allText) - k + 1) : At(i)})

\* calculateExactPhraseBonus, times 1000
calculateExactPhraseBonus(queryTerms, allText) ==
    IF queryTerms = <<>> \/ allText = <<>> THEN 0
    ELSE Ln1000(1 + PhraseMatches(queryTerms, allText))

\* calculateFieldMatchBonus, times 1000
calculateFieldMatchBonus(queryTerms, fieldTerms, boostFactor) ==
    IF fieldTerms = <<>> THEN 0
    ELSE LET matches == Cardinality({i \in 1..Len(queryTerms) :
                                        queryTerms[i] \in Range(fieldTerms)})
         IN (1000 * boostFactor * matches) \div Len(queryTerms)

\* getContentTypeBonus, times 1000
getContentTypeBonus(contentType) ==
    CASE contentType = "article" -> 200
      [] contentType = "blog-post" -> 150
      [] contentType = "tutorial" -> 250
      [] contentType = "news-article" -> 100
      [] contentType = "review" -> 100
      [] contentType = "product-page" -> 50
      [] contentType = "recipe" -> 150
      [] OTHER -> 0

RECURSIVE SumSeq(_)
SumSeq(ns) == IF ns = <<>> THEN 0 ELSE Head(ns) + SumSeq(Tail(ns))

phraseBonusFactor == 5

qualityBoostMilli == 100

freshnessDays == 365

\* calculateRelevanceScore: the score is num / den, num times 1000000 and den
\* times 1000
calculateRelevanceScore(se, contentId, queryTerms, indexData, content) ==
    IF ~MapHas(se.termFrequency, contentId) THEN [num |-> 0, den |-> 1]
    ELSE
    LET termFreq == MapGet(se.termFrequency, contentId)
        tfidf(t) == IF MapHas(termFreq, t) /\ MapGet(termFreq, t) > 0
                    THEN MapGet(termFreq, t)
                         * (Ln1000(se.totalDocuments)
                            - Ln1000(IF MapHas(se.documentFrequency, t)
                                        /\ MapGet(se.documentFrequency, t) # 0
                                     THEN MapGet(se.documentFrequency, t) ELSE 1))
                    ELSE 0
        freshness == IF content.publishAge # -1
                     THEN (100000 * Max(0, freshnessDays - content.publishAge))
                          \div freshnessDays
                     ELSE 0
        score == 1000 * (SumSeq([i \in 1..Len(queryTerms) |-> tfidf(queryTerms[i])])
                         + phraseBonusFactor
                           * calculateExactPhraseBonus(queryTerms, indexData.allText)
                         + calculateFieldMatchBonus(queryTerms, indexData.title, titleBoost)
                         + calculateFieldMatchBonus(queryTerms, indexData.description,
                                                    descriptionBoost)
                         + qualityBoostMilli * content.qualityScore
                         + getContentTypeBonus(content.contentType))
                 + freshness
    IN [num |-> Max(score, 0),
        den |-> Ln1000(1 + (IF indexData.termCount = 0 THEN 1 ELSE indexData.termCount))]

\* scoredResults.sort((a, b) => b.score - a.score): stable, descending
\* a.num / a.den > b.num / b.den, computed on the thousands and the rest of
\* the numerators apart
ScoreHigher(a, b) ==
    LET thousands == (a.num \div 1000) * b.den - (b.num \div 1000) * a.den
        rest == (a.num % 1000) * b.den - (b.num % 1000) * a.den
    IN IF thousands >= 2400 THEN TRUE
       ELSE IF thousands <= -2400 THEN FALSE
       ELSE 1000 * thousands + rest > 0

ScorePlace(rs, i) ==
    1 + Cardinality({j \in 1..Len(rs) :
                        \/ ScoreHigher(rs[j], rs[i])
                        \/ (~ScoreHigher(rs[i], rs[j]) /\ j < i)})

SortByScore(rs) ==
    [k \in 1..Len(rs) |-> rs[CHOOSE i \in 1..Len(rs) : ScorePlace(rs, i) = k]]

EmptyResult == [results |-> <<>>, total |-> 0, error |-> FALSE, thrown |-> FALSE]

ThrownTypeError == [results |-> <<>>, total |-> 0, error |-> FALSE, thrown |-> TRUE]

\* lines 151-179: the candidates that are stored, indexed and pass the filters
passingCandidates(se, candidates, filters) ==
    SelectSeq(candidates, LAMBDA id : /\ MapHas(se.contentStore, id)
                                      /\ MapHas(se.index, id)
                                      /\ passesFilters(MapGet(se.contentStore, id), filters))

\* one entry of scoredResults
ScoredEntry(contentId, score) == [contentId |-> contentId, num |-> score.num, den |-> score.den]

\* lines 151-182: the entries with a positive score, sorted
rankCandidates(se, passed, queryTerms) ==
    SortByScore(SelectSeq([i \in 1..Len(passed) |->
                             ScoredEntry(passed[i],
                                         calculateRelevanceScore(se, passed[i], queryTerms,
                                                                 MapGet(se.index, passed[i]),
                                                                 MapGet(se.contentStore,
                                                                        passed[i])))],
                          LAMBDA r : r.num > 0))

rankTerms(se, queryTerms, filters) ==
    rankCandidates(se, passingCandidates(se, getCandidateDocuments(se, queryTerms), filters),
                   queryTerms)

\* the full ranked list of search: lines 136-182
scoredResults(se, query, filters) == rankTerms(se, tokenize(query.words), filters)

\* Math.round(result.score * 100) / 100, in hundredths
roundedScore(r) == (r.num + 5 * r.den) \div (10 * r.den)

\* lines 197-207: the records of the returned page
mapResults(page) ==
    [i \in 1..Len(page) |->
       [contentId |-> page[i].contentId, relevanceScore |-> roundedScore(page[i])]]

\* lines 185 and 196-211: the page of the ranked list and the total
paginate(ranked, offset, limit, limitNaN) ==
    [results |-> mapResults(IF limitNaN THEN slice(ranked, offset, 0)
                            ELSE slice(ranked, offset, offset + limit)),
     total |-> Len(ranked), error |-> FALSE, thrown |-> FALSE]

\* the try block of search, lines 119-211
searchTry(se, query, options) ==
    IF options.isNull THEN ThrownTypeError
    ELSE IF query.kind = "missing" THEN EmptyResult
    ELSE IF query.kind = "string" /\ QueryLength(query) < se.minQueryLength THEN EmptyResult
    ELSE IF query.kind # "string" THEN ThrownTypeError
    ELSE paginate(scoredResults(se, query, options.filters), options.offset,
                  Min(IF options.limit # 0 THEN options.limit ELSE se.defaultLimit,
                      se.maxLimit),
                  options.limitNaN)

\* the catch of lines 213-222
catchError(r) ==
    IF r.thrown THEN [results |-> <<>>, total |-> 0, error |-> TRUE, thrown |-> FALSE]
    ELSE r

\* search(query, options): the try block and the catch of lines 213-222
search(se, query, options) == catchError(searchTry(se, query, options))

\* getSuggestions(partialQuery, limit): the loop stops taking terms once it
\* holds `limit` of them, and what it holds is sorted afterwards
getSuggestions(se, partialQuery, limit) ==
    LET query == toLowerCase(partialQuery)
        keys == [i \in 1..Len(se.invertedIndex) |-> se.invertedIndex[i].key]
        matching == SelectSeq(keys, LAMBDA t : startsWith(t, query))
        suggestions == SubSeq(matching, 1, Min(Max(limit, 0), Len(matching)))
        sorted == StableSort(suggestions,
                             [i \in 1..Len(suggestions) |->
                                0 - (IF MapHas(se.documentFrequency, suggestions[i])
                                     THEN MapGet(se.documentFrequency, suggestions[i])
                                     ELSE 0)])
    IN IF StrLen(query) < 2 THEN <<>> ELSE slice(sorted, 0, limit)

\* Array.from(map.entries()): the entries as [key, value] pairs
Entries(m) == [i \in 1..Len(m) |-> <<m[i].key, m[i].value>>]

\* new Map(pairs)
MapFromPairs(pairs) ==
    MapFromEntries([i \in 1..Len(pairs) |-> [key |-> pairs[i][1], value |-> pairs[i][2]]])

\* exportIndex()
exportIndex(se) ==
    [index |-> Entries(se.index),
     invertedIndex |-> Entries(se.invertedIndex),
     termFrequency |-> [i \in 1..Len(se.termFrequency) |->
                          <<se.termFrequency[i].key, Entries(se.termFrequency[i].value)>>],
     documentFrequency |-> Entries(se.documentFrequency),
     contentStore |-> Entries(se.contentStore),
     totalDocuments |-> se.totalDocuments]

\* an importIndex that does not restore the document frequencies
importIndexNoFrequencies(se, indexData) ==
    [se EXCEPT
       !.index = MapFromPairs(indexData.index),
       !.invertedIndex = MapFromPairs([i \in 1..Len(indexData.invertedIndex) |->
                                         <<indexData.invertedIndex[i][1],
                                           Distinct(indexData.invertedIndex[i][2])>>]),
       !.termFrequency = MapFromPairs([i \in 1..Len(indexData.termFrequency) |->
                                         <<indexData.termFrequency[i][1],
                                           MapFromPairs(indexData.termFrequency[i][2])>>]),
       !.documentFrequency = EmptyMap,
       !.contentStore = MapFromPairs(indexData.contentStore),
       !.totalDocuments = indexData.totalDocuments]

\* importIndex(indexData)
importIndex(se, indexData) ==
    [se EXCEPT
       !.index = MapFromPairs(indexData.index),
       !.invertedIndex = MapFromPairs([i \in 1..Len(indexData.invertedIndex) |->
                                         <<indexData.invertedIndex[i][1],
                                           Distinct(indexData.invertedIndex[i][2])>>]),
       !.termFrequency = MapFromPairs([i \in 1..Len(indexData.termFrequency) |->
                                         <<indexData.termFrequency[i][1],
                                           MapFromPairs(indexData.termFrequency[i][2])>>]),
       !.documentFrequency = MapFromPairs(indexData.documentFrequency),
       !.contentStore = MapFromPairs(indexData.contentStore),
       !.totalDocuments = indexData.totalDocuments]

\* clear()
clear(se) ==
    [se EXCEPT !.index = EmptyMap, !.invertedIndex = EmptyMap,
               !.termFrequency = EmptyMap, !.documentFrequency = EmptyMap,
               !.contentStore = EmptyMap, !.totalDocuments = 0]

----------------------------------------------------------------------------
(* QualityScorer.  A sub-score is kept exactly, as a multiple of 1/420: the *)
(* word-count ramps have the slopes 1/2, 1/14 and 1/210, and the ratios of  *)
(* the other sub-scores have denominators of at most 7.                     *)

scoreUnit == 420

minWordCount == 100

optimalWordCount == 800

maxWordCount == 5000

optimalHeadings == 5

\* a scoreWordCount whose first ramp ends at 60
scoreWordCountSteepRamp(wordCount) ==
    IF wordCount < minWordCount
    THEN (wordCount * 60 * scoreUnit) \div minWordCount
    ELSE IF wordCount <= optimalWordCount
    THEN 50 * scoreUnit
         + ((wordCount - minWordCount) * 50 * scoreUnit)
           \div (optimalWordCount - minWordCount)
    ELSE IF wordCount <= maxWordCount
    THEN 100 * scoreUnit
         - ((wordCount - optimalWordCount) * 20 * scoreUnit)
           \div (maxWordCount - optimalWordCount)
    ELSE 80 * scoreUnit

\* scoreWordCount, in units of 1/420
scoreWordCount(wordCount) ==
    IF wordCount < minWordCount
    THEN (wordCount * 50 * scoreUnit) \div minWordCount
    ELSE IF wordCount <= optimalWordCount
    THEN 50 * scoreUnit
         + ((wordCount - minWordCount) * 50 * scoreUnit)
           \div (optimalWordCount - minWordCount)
    ELSE IF wordCount <= maxWordCount
    THEN 100 * scoreUnit
         - ((wordCount - optimalWordCount) * 20 * scoreUnit)
           \div (maxWordCount - optimalWordCount)
    ELSE 80 * scoreUnit

\* scoreHeadingStructure on the levels of the headings, in units of 1/420
scoreHeadingStructure(levels) ==
    IF Len(levels) = 0 THEN 0
    ELSE LET presence == 12 * Min(Len(levels), optimalHeadings) * scoreUnit
             hasH1 == 1 \in Range(levels)
             hasMultipleLevels == Cardinality(Range(levels)) > 1
             hierarchyScore == Cardinality({i \in 2..Len(levels) :
                                               levels[i] <= levels[i - 1] + 1})
             hierarchy == IF Len(levels) > 1
                          THEN (hierarchyScore * 20 * scoreUnit) \div (Len(levels) - 1)
                          ELSE 0
         IN Min(presence + (IF hasH1 THEN 20 * scoreUnit ELSE 0)
                         + (IF hasMultipleLevels THEN 20 * scoreUnit ELSE 0)
                         + hierarchy,
                100 * scoreUnit)

\* scoreMetaInformation; a length of 0 is an empty or absent string
scoreMetaInformation(content) ==
    Min(scoreUnit
        * ((IF content.titleLength > 0 THEN 25 ELSE 0)
           + (IF content.titleLength >= 10 /\ content.titleLength <= 70 THEN 15 ELSE 0)
           + (IF content.descriptionLength > 0 THEN 25 ELSE 0)
           + (IF content.descriptionLength >= 50 /\ content.descriptionLength <= 300
              THEN 15 ELSE 0)
           + (IF content.author THEN 10 ELSE 0)
           + (IF content.dated THEN 10 ELSE 0)
           + (IF content.keywordCount > 0 THEN 10 ELSE 0)),
        100 * scoreUnit)

\* scoreLinkQuality; a link is [isInternal, goodText]
scoreLinkQuality(links) ==
    IF Len(links) = 0 THEN 0
    ELSE Min(3 * Min(Len(links), 10) * scoreUnit
             + (IF \E i \in 1..Len(links) : links[i].isInternal THEN 20 * scoreUnit ELSE 0)
             + (IF \E i \in 1..Len(links) : ~links[i].isInternal THEN 10 * scoreUnit ELSE 0)
             + (Cardinality({i \in 1..Len(links) : links[i].goodText}) * 40 * scoreUnit)
               \div Len(links),
             100 * scoreUnit)

\* scoreImagePresence; an image is TRUE when its alt text has more than 5
\* characters
scoreImagePresence(images) ==
    IF Len(images) = 0 THEN 0
    ELSE Min(30 * scoreUnit
             + (Cardinality({i \in 1..Len(images) : images[i]}) * 40 * scoreUnit)
               \div Len(images)
             + (IF Len(images) >= 2 /\ Len(images) <= 10 THEN 30 * scoreUnit ELSE 0),
             100 * scoreUnit)

\* allText.length: title, description and the paragraphs joined by blanks
allTextLength(content) ==
    content.titleLength + 1 + content.descriptionLength
    + SumSeq([i \in 1..Len(content.paragraphs) |-> 1 + content.paragraphs[i]])

\* scoreTextQuality; paragraphs are given by their lengths, sentences is the
\* number of sentences of more than 10 characters, textKeywords the number of
\* keywords extractKeywords finds
scoreTextQuality(content) ==
    Min(scoreUnit
        * ((IF Len(content.paragraphs) > 0
            THEN 5 * Min(Len(content.paragraphs), 5) ELSE 0)
           + (IF /\ Len(content.paragraphs) > 0
                 /\ SumSeq(content.paragraphs) >= 50 * Len(content.paragraphs)
                 /\ SumSeq(content.paragraphs) <= 200 * Len(content.paragraphs)
              THEN 25 ELSE 0)
           + (IF /\ content.sentences > 0
                 /\ allTextLength(content) >= 15 * content.sentences
                 /\ allTextLength(content) <= 30 * content.sentences
              THEN 25 ELSE 0)
           + (IF content.textKeywords >= 5 THEN 25 ELSE 0)),
        100 * scoreUnit)

\* scoreStructuredData on the types of the entries
scoreStructuredData(structuredData) ==
    IF Len(structuredData) = 0 THEN 0
    ELSE Min(scoreUnit
             * (50 + (IF "json-ld" \in Range(structuredData) THEN 30 ELSE 0)
                   + (IF "microdata" \in Range(structuredData) THEN 20 ELSE 0)),
             100 * scoreUnit)

\* scoreFreshness; publishAge is the number of days since the publish date,
\* negative for a date in the future
scoreFreshness(dated, publishAge) ==
    scoreUnit
    * (IF ~dated THEN 50
       ELSE IF publishAge < 0 THEN 50
       ELSE IF publishAge <= 7 THEN 100
       ELSE IF publishAge <= 30 THEN 90
       ELSE IF publishAge <= 90 THEN 80
       ELSE IF publishAge <= 365 THEN 70
       ELSE IF publishAge <= 730 THEN 60
       ELSE 50)

\* the eight sub-scores of calculate, in the order of the weights
subScores(content) ==
    <<scoreWordCount(content.wordCount),
      scoreHeadingStructure(content.headings),
      scoreMetaInformation(content),
      scoreLinkQuality(content.links),
      scoreImagePresence(content.images),
      scoreTextQuality(content),
      scoreStructuredData(content.structuredData),
      scoreFreshness(content.dated, content.publishAge)>>

\* this.weights, in twentieths
weights == <<4, 3, 3, 2, 1, 4, 2, 1>>

\* Math.round of n / d for d > 0
round(n, d) == (2 * n + d) \div (2 * d)

\* Math.min(Math.max(x, 0), 100)
clamp(x) == Min(Max(x, 0), 100)

weightedTotal(scores) == SumSeq([i \in 1..8 |-> weights[i] * scores[i]])

\* a calculate that rounds the total and does not clamp it
calculateUnclamped(content) ==
    IF content.isNull THEN 0
    ELSE round(weightedTotal(subScores(content)), 20 * scoreUnit)

\* QualityScorer.calculate
calculate(content) ==
    IF content.isNull THEN 0
    ELSE clamp(round(weightedTotal(subScores(content)), 20 * scoreUnit))

----------------------------------------------------------------------------
(* WebCrawlerAI: pure parts *)

defaultMaxConcurrency == 5

defaultMaxDepth == 3

topLinksLimit == 5

seedPriority == 10

maxRetries == 2

PendingHas(pend, u) == \E i \in 1..Len(pend) : pend[i].url = u

PendingDelete(pend, u) == SelectSeq(pend, LAMBDA e : e.url # u)

\* a getNextUrl that answers the first key of the pending map, unsorted
getNextUrlFirstInserted(pend) == pend[1]

\* the document the content extractor makes of each page
PageContent(n) ==
    CASE n = Home  -> MkContent(<<"web", "crawler">>, <<>>, <<"the", "crawler">>, <<>>,
                                50, "article", -1, 4)
      [] n = PageA -> MkContent(<<"Running">>, <<>>, <<"Running", "shoes">>, <<>>,
                                40, "review", 10, 3)
      [] n = PageB -> MkContent(<<"shoes">>, <<>>, <<"web">>, <<>>, 20, "", -1, 2)
      [] OTHER -> MkContent(<<>>, <<>>, <<>>, <<>>, 0, "", -1, 0)

\* generateContentId: the MD5 digest of the normalized URL
generateContentId(u) ==
    CASE u = Home -> "md5-home"
      [] u = PageA -> "md5-a"
      [] u = PageB -> "md5-b"
      [] u = Login -> "md5-login"
      [] OTHER -> "md5-other"

\* getNextUrl: first entry of the pending map sorted by descending priority
getNextUrl(pend) == SortByPriority(pend)[1]

\* the forEach of lines 364-372: a link enters the pending map unless its URL is
\* in the crawled set or is a key of the pending map already
ScheduleEach(pend, crawled, topLinks, parentUrl, depth) ==
    LET numbered == [i \in 1..Len(topLinks) |-> [i |-> i, link |-> topLinks[i]]]
        Fresh(r) == /\ r.link.url \notin crawled
                    /\ ~PendingHas(pend, r.link.url)
                    /\ \A j \in 1..(r.i - 1) : topLinks[j].url # r.link.url
        added == SelectSeq(numbered, Fresh)
    IN pend \o [k \in 1..Len(added) |->
                   [url |-> added[k].link.url, depth |-> depth,
                    priority |-> added[k].link.priority, parent |-> parentUrl]]

scheduleChildUrls(pend, crawled, links, parentUrl, depth) ==
    LET prioritizedLinks == prioritizeLinks(links, parentUrl)
        topLinks == SubSeq(prioritizedLinks, 1, Min(topLinksLimit, Len(prioritizedLinks)))
    IN ScheduleEach(pend, crawled, topLinks, parentUrl, depth)

\* crawlBatch, lines 398-407: the seeds enter the pending map
AddSeeds(pend, urls) ==
    LET numbered == [i \in 1..Len(urls) |-> [i |-> i, normalizedUrl |-> normalize(urls[i])]]
        Fresh(r) == /\ r.normalizedUrl.valid
                    /\ ~PendingHas(pend, r.normalizedUrl)
                    /\ \A j \in 1..(r.i - 1) : normalize(urls[j]) # r.normalizedUrl
        added == SelectSeq(numbered, Fresh)
    IN pend \o [k \in 1..Len(added) |->
                   [url |-> added[k].normalizedUrl, depth |-> 0,
                    priority |-> seedPriority, parent |-> Null]]

----------------------------------------------------------------------------
(* WebCrawlerAI: state *)

VARIABLES
    maxActiveCrawls,   \* this.maxActiveCrawls (= this.maxConcurrency)
    maxDepth,          \* this.maxDepth
    browser,           \* this.browser: "null" or "connected"
    crawledUrls,       \* this.crawledUrls
    pendingUrls,       \* this.pendingUrls, in insertion order
    failedUrls,        \* this.failedUrls
    activeCrawls,      \* this.activeCrawls
    contentStore,      \* this.contentStore (the URLs whose document is stored)
    crawlStats,        \* this.crawlStats
    pc,                \* where each caller's async call is suspended
    cur,               \* arguments of each caller's running crawlUrl call
    inBatch,           \* the caller's crawlUrl call was made by crawlBatch
    ret,               \* what the caller's top-level call returned
    stats,             \* the stats record crawlBatch returned
    call,              \* the top-level call each caller made
    mode,              \* how the callers use the crawler: "solo" or "concurrent"
    fetchStarts,       \* history: times a crawl of a URL passed line 209
    errorEvents,       \* history: 'crawl-error' events emitted per URL
    stopRequested,     \* history: close() has been called
    obs,               \* history: what happened in each caller's call
    lastDeq,           \* history: the dequeue a caller has just made
    searchEngine,      \* this.searchEngine
    lastOp,            \* history: the operation called last on the public API
    searchCall,        \* history: the latest search call and its result
    suggestCall,       \* history: the latest getSuggestions call and its result
    normCall,          \* history: the latest UrlUtils.normalize call and its result
    scoreCall,         \* history: the latest QualityScorer.calculate call and its result
    wordCountCall,     \* history: the latest scoreWordCount call and its result
    linkCall           \* history: the latest prioritizeLinks call and its result

crawlerVars == <<maxActiveCrawls, maxDepth, browser, crawledUrls, pendingUrls,
                 failedUrls, activeCrawls, contentStore, crawlStats, pc, cur, inBatch,
                 ret, stats, call, mode, fetchStarts, errorEvents, stopRequested, obs,
                 lastDeq>>

utilVars == <<normCall, scoreCall, wordCountCall, linkCall>>

apiVars == <<lastOp, searchCall, suggestCall, utilVars>>

vars == <<crawlerVars, searchEngine, apiVars>>

\* constructor options: 0 stands for an option that is absent or 0
MaxConcurrencyOptions == {1, 2}

MaxDepthOptions == {0, 1}

NoFrame == [url |-> Null, norm |-> Null, depth |-> 0, priority |-> 0, retryCount |-> 0]

NoCall == [op |-> "none", seeds |-> <<>>, optMaxDepth |-> -1, route |-> FALSE,
           followLinks |-> FALSE]

NoStats == [totalUrls |-> 0, totalPages |-> 0, totalFailed |-> 0, pendingUrls |-> 0]

NoObs == [attempts |-> 0, lastError |-> "none", initFailed |-> FALSE,
          reinit |-> FALSE, open |-> 0]

NoDeq == [entry |-> [url |-> Null, depth |-> 0, priority |-> 0, parent |-> Null],
          before |-> <<>>, open |-> -1]

NoSearchCall == [query |-> MissingQuery, options |-> NullOptions, result |-> EmptyResult]

NoSuggestCall == [partialQuery |-> "", limit |-> 0, result |-> <<>>]

NoNormCall == [url |-> Null, result |-> Null, again |-> Null]

NoScoreCall == [content |-> [isNull |-> TRUE], result |-> 0, scores |-> <<>>]

NoWordCountCall == [wordCount |-> 0, score |-> 0, next |-> 0]

NoLinkCall == [links |-> <<>>, baseUrl |-> Null, result |-> <<>>]

Construct(options) ==
    /\ maxActiveCrawls = (IF options.maxConcurrency = 0 THEN defaultMaxConcurrency
                          ELSE options.maxConcurrency)
    /\ maxDepth = (IF options.maxDepth = 0 THEN defaultMaxDepth ELSE options.maxDepth)
    /\ browser = "null"
    /\ crawledUrls = {}
    /\ pendingUrls = <<>>
    /\ failedUrls = {}
    /\ activeCrawls = 0
    /\ contentStore = {}
    /\ crawlStats = [totalRequested |-> 0, totalCompleted |-> 0, totalFailed |-> 0,
                     uniqueDomains |-> [isSet |-> TRUE, elems |-> {}, size |-> 0]]
    /\ searchEngine = NewSearchEngine(options.search)

InitCallers ==
    /\ pc = [c \in Callers |-> "idle"]
    /\ cur = [c \in Callers |-> NoFrame]
    /\ inBatch = [c \in Callers |-> FALSE]
    /\ ret = [c \in Callers |-> "none"]
    /\ stats = [c \in Callers |-> NoStats]
    /\ call = [c \in Callers |-> NoCall]
    /\ fetchStarts = [u \in NormUrls |-> 0]
    /\ errorEvents = [u \in NormUrls |-> 0]
    /\ stopRequested = FALSE
    /\ obs = [c \in Callers |-> NoObs]
    /\ lastDeq = [c \in Callers |-> NoDeq]
    /\ lastOp = "none"
    /\ searchCall = NoSearchCall
    /\ suggestCall = NoSuggestCall
    /\ normCall = NoNormCall
    /\ scoreCall = NoScoreCall
    /\ wordCountCall = NoWordCountCall
    /\ linkCall = NoLinkCall

Init ==
    /\ \E mc \in MaxConcurrencyOptions, md \in MaxDepthOptions :
          Construct([maxConcurrency |-> mc, maxDepth |-> md, search |-> NoSearchConfig])
    /\ InitCallers
    /\ mode = "solo"

InitConcurrent ==
    /\ \E mc \in MaxConcurrencyOptions, md \in MaxDepthOptions :
          Construct([maxConcurrency |-> mc, maxDepth |-> md, search |-> NoSearchConfig])
    /\ InitCallers
    /\ mode = "concurrent"

----------------------------------------------------------------------------
(* WebCrawlerAI: operations *)

\* a caller may begin a call; in mode "solo" nobody else has used the crawler,
\* and nobody begins a crawl on a crawler that has been closed
CanStart(c) ==
    /\ pc[c] = "idle"
    /\ ~stopRequested
    /\ mode = "solo" => \A d \in Callers \ {c} : pc[d] = "idle"

\* crawlUrl, lines 194-199
Rejected(normalizedUrl, depth, md) ==
    \/ ~normalizedUrl.valid
    \/ normalizedUrl \in crawledUrls
    \/ normalizedUrl \in failedUrls
    \/ depth > md

Frame(url, depth, priority, retryCount) ==
    [url |-> url, norm |-> normalize(url), depth |-> depth,
     priority |-> priority, retryCount |-> retryCount]

ReturnPc(batch) == IF batch THEN "batchLoop" ELSE "done"

getStats(pend) ==
    [totalUrls |-> Cardinality(crawledUrls), totalPages |-> Cardinality(contentStore),
     totalFailed |-> crawlStats.totalFailed, pendingUrls |-> Len(pend)]

\* crawlUrl called directly: lines 191-204, up to the first await
StartCrawlUrl(c, url, depth) ==
    /\ CanStart(c)
    /\ LET f == Frame(url, depth, 1, 0)
       IN /\ cur' = [cur EXCEPT ![c] = f]
          /\ IF Rejected(f.norm, depth, maxDepth)
             THEN /\ pc' = [pc EXCEPT ![c] = "done"]
                  /\ ret' = [ret EXCEPT ![c] = "null"]
             ELSE /\ pc' = [pc EXCEPT ![c] = "robots"]
                  /\ ret' = ret
          /\ obs' = [obs EXCEPT ![c].open = IF Rejected(f.norm, depth, maxDepth)
                                            THEN 0 ELSE 1]
    /\ call' = [call EXCEPT ![c] = [op |-> "crawlUrl", seeds |-> <<url>>,
                                    optMaxDepth |-> -1, route |-> FALSE,
                                    followLinks |-> FALSE]]
    /\ UNCHANGED <<maxActiveCrawls, maxDepth, browser, crawledUrls, pendingUrls,
                   failedUrls, activeCrawls, contentStore, crawlStats, inBatch,
                   stats, mode, fetchStarts, errorEvents, stopRequested, lastDeq>>
    /\ UNCHANGED <<searchEngine, apiVars>>

\* one turn of the while loop of crawlBatch, lines 410-424, on the pending
\* map `pend`, with this.maxDepth = md, up to the next await
BatchTurn(c, pend, md) ==
    IF Len(pend) > 0 \/ activeCrawls > 0
    THEN IF Len(pend) > 0
         THEN LET nextEntry == getNextUrl(pend)
                  f == Frame(nextEntry.url, nextEntry.depth, nextEntry.priority, 0)
              IN /\ pendingUrls' = PendingDelete(pend, nextEntry.url)
                 /\ cur' = [cur EXCEPT ![c] = f]
                 /\ pc' = [pc EXCEPT ![c] =
                             IF Rejected(f.norm, f.depth, md) THEN "batchLoop" ELSE "robots"]
                 /\ obs' = [obs EXCEPT ![c].attempts = 0, ![c].lastError = "none",
                                       ![c].initFailed = FALSE,
                                       ![c].reinit = FALSE,
                                       ![c].open = IF Rejected(f.norm, f.depth, md)
                                                   THEN 0 ELSE 1]
                 /\ lastDeq' = [lastDeq EXCEPT ![c] =
                                  [entry |-> nextEntry, before |-> pend,
                                   open |-> obs[c].open]]
                 /\ UNCHANGED <<ret, stats>>
         ELSE /\ pendingUrls' = pend
              /\ pc' = [pc EXCEPT ![c] = "batchLoop"]
              /\ lastDeq' = [lastDeq EXCEPT ![c] = NoDeq]
              /\ UNCHANGED <<cur, ret, stats, obs>>
    ELSE /\ pendingUrls' = pend
         /\ pc' = [pc EXCEPT ![c] = "done"]
         /\ ret' = [ret EXCEPT ![c] = "stats"]
         /\ stats' = [stats EXCEPT ![c] = getStats(pend)]
         /\ lastDeq' = [lastDeq EXCEPT ![c] = NoDeq]
         /\ UNCHANGED <<cur, obs>>

\* crawlBatch(urls, options), lines 392-424 up to the first await; the
\* options argument is not read
StartBatch(c, urls, options) ==
    /\ CanStart(c)
    /\ BatchTurn(c, AddSeeds(pendingUrls, urls), maxDepth)
    /\ inBatch' = [inBatch EXCEPT ![c] = TRUE]
    /\ call' = [call EXCEPT ![c] = [op |-> "crawlBatch", seeds |-> urls,
                                    optMaxDepth |-> options.maxDepth, route |-> FALSE,
                                    followLinks |-> FALSE]]
    /\ UNCHANGED <<maxActiveCrawls, maxDepth, browser, crawledUrls, failedUrls,
                   activeCrawls, contentStore, crawlStats, mode, fetchStarts,
                   errorEvents, stopRequested>>
    /\ UNCHANGED <<searchEngine, apiVars>>

\* crawlBatch resumes after the awaited crawlUrl or the 1 s sleep
BatchLoop(c) ==
    /\ pc[c] = "batchLoop"
    /\ BatchTurn(c, pendingUrls, maxDepth)
    /\ UNCHANGED <<maxActiveCrawls, maxDepth, browser, crawledUrls, failedUrls,
                   activeCrawls, contentStore, crawlStats, inBatch, call, mode,
                   fetchStarts, errorEvents, stopRequested>>
    /\ UNCHANGED <<searchEngine, apiVars>>

\* a POST /crawl that runs the batch crawl whatever followLinks says
PostCrawlAlwaysBatch(c, url, bodyMaxDepth, followLinks) ==
    /\ CanStart(c)
    /\ url.valid
    /\ LET md == IF bodyMaxDepth # 0 THEN bodyMaxDepth ELSE maxDepth
       IN /\ maxDepth' = md
          /\ IF followLinks \/ TRUE
             THEN /\ BatchTurn(c, AddSeeds(pendingUrls, <<url>>), md)
                  /\ inBatch' = [inBatch EXCEPT ![c] = TRUE]
                  /\ call' = [call EXCEPT ![c] = [op |-> "crawlBatch", seeds |-> <<url>>,
                                                  optMaxDepth |-> bodyMaxDepth,
                                                  route |-> TRUE,
                                                  followLinks |-> followLinks]]
             ELSE /\ cur' = [cur EXCEPT ![c] = Frame(url, 0, 1, 0)]
                  /\ IF Rejected(normalize(url), 0, md)
                     THEN /\ pc' = [pc EXCEPT ![c] = "done"]
                          /\ ret' = [ret EXCEPT ![c] = "null"]
                          /\ obs' = obs
                     ELSE /\ pc' = [pc EXCEPT ![c] = "robots"]
                          /\ ret' = ret
                          /\ obs' = [obs EXCEPT ![c].open = 1]
                  /\ call' = [call EXCEPT ![c] = [op |-> "crawlUrl", seeds |-> <<url>>,
                                                  optMaxDepth |-> -1, route |-> TRUE,
                                                  followLinks |-> followLinks]]
                  /\ UNCHANGED <<pendingUrls, inBatch, stats, lastDeq>>
    /\ UNCHANGED <<maxActiveCrawls, browser, crawledUrls, failedUrls, activeCrawls,
                   contentStore, crawlStats, mode, fetchStarts, errorEvents,
                   stopRequested>>
    /\ UNCHANGED <<searchEngine, apiVars>>

\* POST /crawl, crawl.js lines 46-67, up to the first await of the crawl
PostCrawl(c, url, bodyMaxDepth, followLinks) ==
    /\ CanStart(c)
    /\ url.valid
    /\ LET md == IF bodyMaxDepth # 0 THEN bodyMaxDepth ELSE maxDepth
       IN /\ maxDepth' = md
          /\ IF followLinks
             THEN /\ BatchTurn(c, AddSeeds(pendingUrls, <<url>>), md)
                  /\ inBatch' = [inBatch EXCEPT ![c] = TRUE]
                  /\ call' = [call EXCEPT ![c] = [op |-> "crawlBatch", seeds |-> <<url>>,
                                                  optMaxDepth |-> bodyMaxDepth,
                                                  route |-> TRUE,
                                                  followLinks |-> followLinks]]
             ELSE /\ cur' = [cur EXCEPT ![c] = Frame(url, 0, 1, 0)]
                  /\ IF Rejected(normalize(url), 0, md)
                     THEN /\ pc' = [pc EXCEPT ![c] = "done"]
                          /\ ret' = [ret EXCEPT ![c] = "null"]
                          /\ obs' = obs
                     ELSE /\ pc' = [pc EXCEPT ![c] = "robots"]
                          /\ ret' = ret
                          /\ obs' = [obs EXCEPT ![c].open = 1]
                  /\ call' = [call EXCEPT ![c] = [op |-> "crawlUrl", seeds |-> <<url>>,
                                                  optMaxDepth |-> -1, route |-> TRUE,
                                                  followLinks |-> followLinks]]
                  /\ UNCHANGED <<pendingUrls, inBatch, stats, lastDeq>>
    /\ UNCHANGED <<maxActiveCrawls, browser, crawledUrls, failedUrls, activeCrawls,
                   contentStore, crawlStats, mode, fetchStarts, errorEvents,
                   stopRequested>>
    /\ UNCHANGED <<searchEngine, apiVars>>

\* lines 201-207 and 379-381.  canCrawl (lines 168-186) has answered: the
\* robotsParser module has no fetch function, the call throws and the catch
\* answers true; or the 100 ms poll of waitForSlot is over.  The while
\* condition of waitForSlot is tested.
WaitForSlot(c) ==
    /\ pc[c] \in {"robots", "waitSlot"}
    /\ pc' = [pc EXCEPT ![c] = IF activeCrawls >= maxActiveCrawls THEN "waitSlot"
                                ELSE "delay"]
    /\ lastDeq' = [lastDeq EXCEPT ![c] = NoDeq]
    /\ UNCHANGED <<maxActiveCrawls, maxDepth, browser, crawledUrls, pendingUrls,
                   failedUrls, activeCrawls, contentStore, crawlStats, cur, inBatch,
                   ret, stats, call, mode, fetchStarts, errorEvents, stopRequested,
                   obs>>
    /\ UNCHANGED <<searchEngine, apiVars>>

\* the politeness delay of waitForSlot is over: lines 208-222
AcquireSlot(c) ==
    /\ pc[c] = "delay"
    /\ activeCrawls' = activeCrawls + 1
    /\ crawledUrls' = crawledUrls \cup {cur[c].norm}
    /\ crawlStats' = [crawlStats EXCEPT !.totalRequested = @ + 1]
    /\ fetchStarts' = [fetchStarts EXCEPT ![cur[c].norm] = @ + 1]
    /\ obs' = [obs EXCEPT ![c].attempts = @ + 1]
    /\ pc' = [pc EXCEPT ![c] = IF browser = "null" THEN "init" ELSE "fetch"]
    /\ UNCHANGED <<maxActiveCrawls, maxDepth, browser, pendingUrls, failedUrls,
                   contentStore, cur, inBatch, ret, stats, call, mode, errorEvents,
                   stopRequested, lastDeq>>
    /\ UNCHANGED <<searchEngine, apiVars>>

\* the call returns `r` to its caller (after the finally block)
Return(c, r, o) ==
    /\ pc' = [pc EXCEPT ![c] = ReturnPc(inBatch[c])]
    /\ ret' = IF inBatch[c] THEN ret ELSE [ret EXCEPT ![c] = r]
    /\ obs' = [obs EXCEPT ![c] = [o EXCEPT !.open = 0]]

\* a catch block whose give-up path leaves the slot counted (no finally block)
RetryOrGiveUpNoFinally(c, kind, o) ==
    IF cur[c].retryCount < maxRetries /\ kind = "transient"
    THEN /\ activeCrawls' = activeCrawls - 1
         /\ pc' = [pc EXCEPT ![c] = "retryWait"]
         /\ obs' = [obs EXCEPT ![c] = o]
         /\ UNCHANGED <<errorEvents, ret>>
    ELSE /\ errorEvents' = [errorEvents EXCEPT ![cur[c].norm] = @ + 1]
         /\ activeCrawls' = activeCrawls
         /\ Return(c, "null", o)

\* catch block from line 332 on, and the finally block
RetryOrGiveUp(c, kind, o) ==
    IF cur[c].retryCount < maxRetries /\ kind = "transient"
    THEN /\ activeCrawls' = activeCrawls - 1
         /\ pc' = [pc EXCEPT ![c] = "retryWait"]
         /\ obs' = [obs EXCEPT ![c] = o]
         /\ UNCHANGED <<errorEvents, ret>>
    ELSE /\ errorEvents' = [errorEvents EXCEPT ![cur[c].norm] = @ + 1]
         /\ activeCrawls' = activeCrawls - 1
         /\ Return(c, "null", o)

\* catch block, lines 310-321
Catch(c, kind, pageOpen, o) ==
    /\ failedUrls' = failedUrls \cup {cur[c].norm}
    /\ crawlStats' = [crawlStats EXCEPT !.totalFailed = @ + 1]
    /\ IF pageOpen
       THEN /\ pc' = [pc EXCEPT ![c] = "closePage"]
            /\ obs' = [obs EXCEPT ![c] = o]
            /\ UNCHANGED <<activeCrawls, errorEvents, ret>>
       ELSE RetryOrGiveUp(c, kind, o)

ErrorKinds == {"transient", "other"}

\* an init() that builds the crawler's collections anew, as the constructor does
ReinitFromScratch(c, outcome) ==
    /\ pc[c] = "init"
    /\ IF outcome = "ok"
       THEN /\ browser' = "connected"
            /\ pc' = [pc EXCEPT ![c] = "fetch"]
            /\ obs' = [obs EXCEPT ![c].reinit = TRUE]
            /\ pendingUrls' = <<>>
            /\ UNCHANGED <<failedUrls, crawlStats, activeCrawls, errorEvents, ret>>
       ELSE /\ browser' = "null"
            /\ pendingUrls' = pendingUrls
            /\ Catch(c, outcome, FALSE,
                     [obs[c] EXCEPT !.lastError = outcome, !.initFailed = TRUE])
    /\ UNCHANGED <<maxActiveCrawls, maxDepth, crawledUrls, contentStore,
                   cur, inBatch, stats, call, mode, fetchStarts, stopRequested, lastDeq>>
    /\ UNCHANGED <<searchEngine, apiVars>>

\* init() called from crawlUrl, lines 217-220
Reinit(c, outcome) ==
    /\ pc[c] = "init"
    /\ IF outcome = "ok"
       THEN /\ browser' = "connected"
            /\ pc' = [pc EXCEPT ![c] = "fetch"]
            /\ obs' = [obs EXCEPT ![c].reinit = TRUE]
            /\ UNCHANGED <<failedUrls, crawlStats, activeCrawls, errorEvents, ret>>
       ELSE /\ browser' = "null"
            /\ Catch(c, outcome, FALSE,
                     [obs[c] EXCEPT !.lastError = outcome, !.initFailed = TRUE])
    /\ UNCHANGED <<maxActiveCrawls, maxDepth, crawledUrls, pendingUrls, contentStore,
                   cur, inBatch, stats, call, mode, fetchStarts, stopRequested, lastDeq>>
    /\ UNCHANGED <<searchEngine, apiVars>>

\* lines 222-308: the page is fetched, extracted, stored, indexed and its links
\* scheduled.  updateStats (lines 458-467) calls this.crawlStats.uniqueDomains
\* .add: where uniqueDomains is no Set the call throws after the document has
\* been stored and indexed, with the page closed, and the catch block runs
FetchOk(c) ==
    /\ pc[c] = "fetch"
    /\ contentStore' = contentStore \cup {cur[c].norm}
    /\ searchEngine' = indexContent(searchEngine, generateContentId(cur[c].norm),
                                    PageContent(cur[c].norm))
    /\ IF crawlStats.uniqueDomains.isSet
       THEN /\ pendingUrls' = IF cur[c].depth < maxDepth
                              THEN scheduleChildUrls(pendingUrls, crawledUrls,
                                                     PageLinks(cur[c].norm), cur[c].norm,
                                                     cur[c].depth + 1)
                              ELSE pendingUrls
            /\ crawlStats' = [crawlStats EXCEPT
                                 !.totalCompleted = @ + 1,
                                 !.uniqueDomains.elems = @ \cup {getDomain(cur[c].norm)}]
            /\ activeCrawls' = activeCrawls - 1
            /\ Return(c, "content", [obs[c] EXCEPT !.lastError = "none"])
            /\ UNCHANGED <<failedUrls, errorEvents>>
       ELSE /\ pendingUrls' = pendingUrls
            /\ Catch(c, "other", FALSE, [obs[c] EXCEPT !.lastError = "other"])
    /\ UNCHANGED <<maxActiveCrawls, maxDepth, browser, crawledUrls, cur, inBatch,
                   stats, call, mode, fetchStarts, stopRequested, lastDeq>>
    /\ UNCHANGED apiVars

\* lines 222-276 throw: navigation, HTTP status or extraction fails
FetchFail(c, kind, pageOpen) ==
    /\ pc[c] = "fetch"
    /\ Catch(c, kind, pageOpen, [obs[c] EXCEPT !.lastError = kind])
    /\ UNCHANGED <<maxActiveCrawls, maxDepth, browser, crawledUrls, pendingUrls,
                   contentStore, cur, inBatch, stats, call, mode, fetchStarts,
                   stopRequested, lastDeq>>
    /\ UNCHANGED <<searchEngine, apiVars>>

\* lines 315-317: the page has been closed
ClosePage(c) ==
    /\ pc[c] = "closePage"
    /\ RetryOrGiveUp(c, obs[c].lastError, obs[c])
    /\ UNCHANGED <<maxActiveCrawls, maxDepth, browser, crawledUrls, pendingUrls,
                   failedUrls, contentStore, crawlStats, cur, inBatch, stats, call,
                   mode, fetchStarts, stopRequested, lastDeq>>
    /\ UNCHANGED <<searchEngine, apiVars>>

\* lines 340-341 and 351: after the backoff crawlUrl calls itself, and the
\* finally block of the outer call runs as soon as that call is suspended
Retry(c) ==
    /\ pc[c] = "retryWait"
    /\ activeCrawls' = activeCrawls - 1
    /\ IF Rejected(cur[c].norm, cur[c].depth, maxDepth)
       THEN /\ Return(c, "null", obs[c])
            /\ cur' = cur
       ELSE /\ cur' = [cur EXCEPT ![c].retryCount = @ + 1]
            /\ pc' = [pc EXCEPT ![c] = "robots"]
            /\ UNCHANGED <<ret, obs>>
    /\ UNCHANGED <<maxActiveCrawls, maxDepth, browser, crawledUrls, pendingUrls,
                   failedUrls, contentStore, crawlStats, inBatch, stats, call, mode,
                   fetchStarts, errorEvents, stopRequested, lastDeq>>
    /\ UNCHANGED <<searchEngine, apiVars>>

\* close(), lines 156-163
Close ==
    /\ browser' = "null"
    /\ stopRequested' = TRUE
    /\ UNCHANGED <<maxActiveCrawls, maxDepth, crawledUrls, pendingUrls, failedUrls,
                   activeCrawls, contentStore, crawlStats, pc, cur, inBatch, ret,
                   stats, call, mode, fetchStarts, errorEvents, obs, lastDeq>>
    /\ UNCHANGED <<searchEngine, apiVars>>

\* the 'disconnected' handler installed by init, lines 140-143
Disconnected ==
    /\ browser = "connected"
    /\ browser' = "null"
    /\ UNCHANGED <<maxActiveCrawls, maxDepth, crawledUrls, pendingUrls, failedUrls,
                   activeCrawls, contentStore, crawlStats, pc, cur, inBatch, ret,
                   stats, call, mode, fetchStarts, errorEvents, stopRequested, obs,
                   lastDeq>>
    /\ UNCHANGED <<searchEngine, apiVars>>

\* init() called by the owner of the crawler (getCrawler), lines 116-146
Launch ==
    /\ browser = "null"
    /\ ~stopRequested
    /\ browser' = "connected"
    /\ UNCHANGED <<maxActiveCrawls, maxDepth, crawledUrls, pendingUrls, failedUrls,
                   activeCrawls, contentStore, crawlStats, pc, cur, inBatch, ret,
                   stats, call, mode, fetchStarts, errorEvents, stopRequested, obs,
                   lastDeq>>
    /\ UNCHANGED <<searchEngine, apiVars>>

----------------------------------------------------------------------------
(* Specifications *)

DepthArgs == {0, 2}

SeedLists == {<<Home>>, <<PageB>>, <<Garbage>>, <<PageB, Home>>, <<PageAUpper, PageB>>}

BatchOptions == {[maxDepth |-> -1], [maxDepth |-> 0]}

RouteMaxDepths == {0, 2}

Step(c) ==
    \/ WaitForSlot(c)
    \/ AcquireSlot(c)
    \/ \E outcome \in {"ok"} \cup ErrorKinds : Reinit(c, outcome)
    \/ \E kind \in ErrorKinds, pageOpen \in BOOLEAN : FetchFail(c, kind, pageOpen)
    \/ FetchOk(c)
    \/ ClosePage(c)
    \/ Retry(c)
    \/ BatchLoop(c)

Start(c) ==
    \/ \E url \in InputUrls, depth \in DepthArgs : StartCrawlUrl(c, url, depth)
    \/ \E urls \in SeedLists, options \in BatchOptions : StartBatch(c, urls, options)
    \/ \E url \in InputUrls, md \in RouteMaxDepths, followLinks \in BOOLEAN :
          PostCrawl(c, url, md, followLinks)

Next ==
    \/ \E c \in Callers : Start(c)
    \/ \E c \in Callers : Step(c)
    \/ Close
    \/ Disconnected
    \/ Launch

\* one caller uses a crawler whose browser may be closed, lost and relaunched
Spec == Init /\ [][Next]_vars

\* the event loop runs every continuation that is ready
FairSpec == Init /\ [][Next]_vars /\ \A c \in Callers : WF_vars(Step(c))

StartConcurrent(c) ==
    \/ \E url \in {Home, PageAUpper} : StartCrawlUrl(c, url, 0)
    \/ StartBatch(c, <<Home>>, [maxDepth |-> -1])

NextConcurrent ==
    \/ \E c \in Callers : StartConcurrent(c)
    \/ \E c \in Callers : Step(c)

\* several callers use the crawler at the same time
SpecConcurrent == InitConcurrent /\ [][NextConcurrent]_vars

\* two clients post to the /crawl route, which keeps one crawler for all
\* requests (crawl.js lines 6-15): built without options, launched on demand
RouteUrls == {Home, PageB}

RouteDepths == {0, 1}

InitRoute ==
    /\ Construct([maxConcurrency |-> 0, maxDepth |-> 0, search |-> NoSearchConfig])
    /\ InitCallers
    /\ mode = "concurrent"

StartRoute(c) ==
    \E url \in RouteUrls, md \in RouteDepths, followLinks \in BOOLEAN :
       PostCrawl(c, url, md, followLinks)

NextRoute ==
    \/ \E c \in Callers : StartRoute(c)
    \/ \E c \in Callers : Step(c)

SpecRoute == InitRoute /\ [][NextRoute]_vars

\* a crawler that is restored from its own export between the calls made on
\* it: importData(await exportData()), lines 518-568.  The Sets and Maps go
\* through arrays and come back with the same members; the pending map is not
\* exported and stays; the search index is exported and imported; crawlStats
\* takes the fields of getStats() of the same name, of which uniqueDomains is
\* the size of the Set (line 484)
ImportExportedData ==
    /\ \A c \in Callers : pc[c] \in {"idle", "done"}
    /\ searchEngine' = importIndex(searchEngine, exportIndex(searchEngine))
    /\ crawlStats' = [crawlStats EXCEPT
                         !.uniqueDomains = [isSet |-> FALSE, elems |-> {},
                                            size |-> IF @.isSet THEN Cardinality(@.elems)
                                                     ELSE @.size]]
    /\ lastOp' = "importData"
    /\ UNCHANGED <<maxActiveCrawls, maxDepth, browser, crawledUrls, pendingUrls,
                   failedUrls, activeCrawls, contentStore, pc, cur, inBatch, ret,
                   stats, call, mode, fetchStarts, errorEvents, stopRequested, obs,
                   lastDeq>>
    /\ UNCHANGED <<searchCall, suggestCall, utilVars>>

\* the calls are made one after the other
StartInTurn(c) ==
    /\ \A d \in Callers : pc[d] \in {"idle", "done"}
    /\ \/ \E url \in RouteUrls : StartCrawlUrl(c, url, 0)
       \/ StartBatch(c, <<PageB>>, [maxDepth |-> -1])

NextImport ==
    \/ \E c \in Callers : StartInTurn(c)
    \/ \E c \in Callers : Step(c)
    \/ ImportExportedData

SpecImport == InitRoute /\ [][NextImport]_vars

----------------------------------------------------------------------------
(* The search engine used through its own interface *)

DocIds == <<"d1", "d2", "d3">>

DocRunA == MkContent(<<>>, <<>>, <<"Running", "shoes">>, <<>>, 10, "article", 30, 100)

DocRunB == MkContent(<<>>, <<>>, <<"shoes", "Running">>, <<>>, 10, "article", 30, 100)

DocWebA == MkContent(<<>>, <<>>, <<"web", "crawler">>, <<>>, 10, "article", 30, 100)

DocCrawl == MkContent(<<"crawl">>, <<>>, <<"crawl", "crawler">>, <<"web">>, 80, "tutorial", -1, 500)

DocOld == MkContent(<<"crawler">>, <<"the", "web">>, <<"a">>, <<"shoes">>, 0, "", 364, 5)

Contents == {DocRunA, DocRunB, DocWebA, DocCrawl, DocOld, NullContent}

SearchConfigs == {[defaultLimit |-> 1, maxLimit |-> 2, enableFuzzySearch |-> TRUE],
                  [defaultLimit |-> 1, maxLimit |-> 1, enableFuzzySearch |-> TRUE]}

Queries == {StringQuery(<<"Running", "shoes">>), StringQuery(<<"crawler">>),
            StringQuery(<<"a">>), MissingQuery, NumberQuery}

FiltersA == [contentType |-> "article", minQuality |-> 5, maxAge |-> 100,
             minWordCount |-> 50, topics |-> <<>>]

FiltersB == [contentType |-> "", minQuality |-> 0, maxAge |-> 100, minWordCount |-> 0,
             topics |-> <<"web">>]

OptionsSet == {MkOptions(0, 0, NoFilters), MkOptions(2, 0, NoFilters),
               MkOptions(5, 1, NoFilters), MkOptions(-1, 0, NoFilters),
               MkOptions(2, -1, NoFilters), MkOptions(2, 0, FiltersA),
               MkOptions(2, 0, FiltersB), NullOptions, NaNLimitOptions}

PartialQueries == {"Cr", "C", "web"}

SuggestionLimits == {0, 1, 2}

InitSearch ==
    /\ \E sc \in SearchConfigs :
          Construct([maxConcurrency |-> 0, maxDepth |-> 0, search |-> sc])
    /\ InitCallers
    /\ mode = "solo"

\* the document ids are opaque: a new document takes the first unused id
IdsInUse == Len(searchEngine.contentStore)

IndexContent(n, content) ==
    /\ searchEngine.totalDocuments < MaxIndexCalls
    /\ n <= Min(IdsInUse + 1, Len(DocIds))
    /\ searchEngine' = indexContent(searchEngine, DocIds[n], content)
    /\ lastOp' = "indexContent"
    /\ searchCall' = NoSearchCall
    /\ suggestCall' = NoSuggestCall
    /\ UNCHANGED <<crawlerVars, utilVars>>

Clear ==
    /\ searchEngine' = clear(searchEngine)
    /\ lastOp' = "clear"
    /\ searchCall' = NoSearchCall
    /\ suggestCall' = NoSuggestCall
    /\ UNCHANGED <<crawlerVars, utilVars>>

\* importIndex(exportIndex())
ImportExported ==
    /\ searchEngine' = importIndex(searchEngine, exportIndex(searchEngine))
    /\ lastOp' = "importIndex"
    /\ searchCall' = NoSearchCall
    /\ suggestCall' = NoSuggestCall
    /\ UNCHANGED <<crawlerVars, utilVars>>

Search(query, options) ==
    /\ searchCall' = [query |-> query, options |-> options,
                      result |-> search(searchEngine, query, options)]
    /\ lastOp' = "search"
    /\ suggestCall' = NoSuggestCall
    /\ UNCHANGED <<crawlerVars, searchEngine, utilVars>>

GetSuggestions(partialQuery, limit) ==
    /\ suggestCall' = [partialQuery |-> partialQuery, limit |-> limit,
                       result |-> getSuggestions(searchEngine, partialQuery, limit)]
    /\ lastOp' = "getSuggestions"
    /\ searchCall' = NoSearchCall
    /\ UNCHANGED <<crawlerVars, searchEngine, utilVars>>

NextSearch ==
    \/ \E n \in 1..Len(DocIds), content \in Contents : IndexContent(n, content)
    \/ Clear
    \/ ImportExported
    \/ \E query \in Queries, options \in OptionsSet : Search(query, options)
    \/ \E partialQuery \in PartialQueries, limit \in SuggestionLimits :
          GetSuggestions(partialQuery, limit)

\* indexContent, clear, importIndex(exportIndex()), search and getSuggestions
\* called in any order on one engine
SpecSearch == InitSearch /\ [][NextSearch]_vars

----------------------------------------------------------------------------
(* Approximate matches: an engine with and without fuzzy search, documents  *)
(* whose terms are near the query terms                                     *)

DocTrawl == MkContent(<<>>, <<>>, <<"trawl">>, <<>>, 10, "article", 30, 100)

DocBrawler == MkContent(<<>>, <<>>, <<"brawler">>, <<>>, 10, "article", 30, 100)

FuzzyContents == {DocTrawl, DocBrawler, DocWebA, DocCrawl}

FuzzyConfigs == {[defaultLimit |-> 0, maxLimit |-> 0, enableFuzzySearch |-> b] :
                    b \in BOOLEAN}

FuzzyQueries == {StringQuery(<<"crawl">>), StringQuery(<<"crawler">>),
                 StringQuery(<<"web">>)}

InitFuzzy ==
    /\ \E sc \in FuzzyConfigs :
          Construct([maxConcurrency |-> 0, maxDepth |-> 0, search |-> sc])
    /\ InitCallers
    /\ mode = "solo"

NextFuzzy ==
    \/ \E n \in 1..Len(DocIds), content \in FuzzyContents : IndexContent(n, content)
    \/ \E query \in FuzzyQueries : Search(query, MkOptions(0, 0, NoFilters))

SpecFuzzy == InitFuzzy /\ [][NextFuzzy]_vars

----------------------------------------------------------------------------
(* UrlUtils.normalize called on its own *)

ParamNames == {"q", "Q", "ref", "utm_source", "UTM_SOURCE"}

QueryStrings == {<<>>} \cup {<<a>> : a \in ParamNames}
                       \cup {<<a, b>> : a \in ParamNames, b \in ParamNames}

UrlInputs == {MkUrl(Site, p, q, f) : p \in {"", "/a", "/A"}, q \in QueryStrings,
                                     f \in {"", "top"}} \cup {Garbage}

Normalize(u) ==
    /\ normCall' = [url |-> u, result |-> normalize(u), again |-> normalize(normalize(u))]
    /\ lastOp' = "normalize"
    /\ UNCHANGED <<crawlerVars, searchEngine, searchCall, suggestCall, scoreCall,
                   wordCountCall, linkCall>>

NextUrl == \E u \in UrlInputs : Normalize(u)

SpecUrl == InitSearch /\ [][NextUrl]_vars

----------------------------------------------------------------------------
(* QualityScorer called on its own *)

MaxWordCount == 5200

\* a document as QualityScorer.calculate reads it
MkScored(words, headings, meta, links, images, text, structuredData, date) ==
    [isNull |-> FALSE, wordCount |-> words, headings |-> headings,
     titleLength |-> meta.titleLength, descriptionLength |-> meta.descriptionLength,
     author |-> meta.author, keywordCount |-> meta.keywordCount,
     links |-> links, images |-> images,
     paragraphs |-> text.paragraphs, sentences |-> text.sentences,
     textKeywords |-> text.textKeywords,
     structuredData |-> structuredData, dated |-> date.dated, publishAge |-> date.publishAge]

GoodLink == [isInternal |-> TRUE, goodText |-> TRUE]

OuterLink == [isInternal |-> FALSE, goodText |-> TRUE]

PoorLink == [isInternal |-> FALSE, goodText |-> FALSE]

DocWordCounts == {0 - 100, 0 - 5, 0, 800, 6000}

DocHeadings == {<<>>, <<2>>, <<1, 3>>, <<1, 2, 2, 3, 1>>}

DocMetas == {[titleLength |-> 0, descriptionLength |-> 0, author |-> FALSE, keywordCount |-> 0],
             [titleLength |-> 5, descriptionLength |-> 400, author |-> FALSE, keywordCount |-> 0],
             [titleLength |-> 30, descriptionLength |-> 100, author |-> TRUE, keywordCount |-> 3]}

DocLinks == {<<>>, <<PoorLink>>,
             <<GoodLink, GoodLink, GoodLink, GoodLink, GoodLink, OuterLink, OuterLink,
               OuterLink, OuterLink, OuterLink>>}

DocImages == {<<>>, <<FALSE>>, <<TRUE, TRUE>>}

DocTexts == {[paragraphs |-> <<>>, sentences |-> 0, textKeywords |-> 0],
             [paragraphs |-> <<10>>, sentences |-> 1, textKeywords |-> 2],
             [paragraphs |-> <<100, 100, 100, 100, 100>>, sentences |-> 30, textKeywords |-> 8]}

DocStructuredData == {<<>>, <<"rdfa">>, <<"json-ld", "microdata">>}

DocDates == {[dated |-> FALSE, publishAge |-> 0], [dated |-> TRUE, publishAge |-> 0 - 3],
             [dated |-> TRUE, publishAge |-> 3], [dated |-> TRUE, publishAge |-> 1000]}

ScoredDocs ==
    {MkScored(w, h, m, l, i, t, sd, d) :
        w \in DocWordCounts, h \in DocHeadings, m \in DocMetas, l \in DocLinks,
        i \in DocImages, t \in DocTexts, sd \in DocStructuredData, d \in DocDates}
    \cup {[isNull |-> TRUE]}

\* the scorer keeps no state between calls: each behaviour makes one call
Calculate ==
    /\ lastOp = "none"
    /\ \E content \in ScoredDocs :
          scoreCall' = [content |-> content, result |-> calculate(content),
                        scores |-> IF content.isNull THEN <<>> ELSE subScores(content)]
    /\ lastOp' = "calculate"
    /\ UNCHANGED <<crawlerVars, searchEngine, searchCall, suggestCall, normCall,
                   wordCountCall, linkCall>>

\* scoreWordCount at a word count and at the next one
ScoreWordCount ==
    /\ lastOp = "none"
    /\ \E wordCount \in 0..MaxWordCount :
          wordCountCall' = [wordCount |-> wordCount, score |-> scoreWordCount(wordCount),
                            next |-> scoreWordCount(wordCount + 1)]
    /\ lastOp' = "scoreWordCount"
    /\ UNCHANGED <<crawlerVars, searchEngine, searchCall, suggestCall, normCall,
                   scoreCall, linkCall>>

NextQuality == Calculate \/ ScoreWordCount

SpecQuality == InitSearch /\ [][NextQuality]_vars

----------------------------------------------------------------------------
(* LinkAnalyzer.prioritizeLinks called on its own *)

MaxLinks == 3

LoginUpper == MkUrl(Site, "/Login", <<>>, "")
ApiV1 == MkUrl(Other, "/api/v1", <<>>, "")
ApiRoot == MkUrl(Other, "/api", <<>>, "")
FilePdf == MkUrl(Site, "/file.pdf", <<>>, "")
FilePdfQuery == MkUrl(Site, "/file.pdf", <<"q">>, "")

LinkUrls == {PageA, PageB, Login, LoginUpper, ApiV1, ApiRoot, FilePdf, FilePdfQuery, Garbage}

\* a link with a short descriptive text in a paragraph, and a "next" link
\* with a deep, unreadable URL and no context
LinkInputs == {MkLink(u, 3, 4, 1) : u \in LinkUrls} \cup {MkLink(u, 0 - 2, 0, 0) : u \in LinkUrls}

LinkLists == UNION {[1..n -> LinkInputs] : n \in 0..MaxLinks}

BaseUrls == {Home, PageB, Garbage}

PrioritizeLinks ==
    /\ lastOp = "none"
    /\ \E links \in LinkLists, baseUrl \in BaseUrls :
          linkCall' = [links |-> links, baseUrl |-> baseUrl,
                       result |-> prioritizeLinks(links, baseUrl)]
    /\ lastOp' = "prioritizeLinks"
    /\ UNCHANGED <<crawlerVars, searchEngine, searchCall, suggestCall, normCall,
                   scoreCall, wordCountCall>>

NextLinks == PrioritizeLinks

SpecLinks == InitSearch /\ [][NextLinks]_vars

----------------------------------------------------------------------------
(* Claims *)

\* the caller's crawlUrl call is running (it has not returned yet)
Running(c) == obs[c].open = 1

\* the caller made crawlBatch([u], ...) for a valid URL u
SingleSeedBatch(c) ==
    /\ call[c].op = "crawlBatch"
    /\ Len(call[c].seeds) = 1
    /\ normalize(call[c].seeds[1]).valid

\* C1: no normalized URL is in both the crawled set and the failed set, and
\* after crawlBatch([u]) has returned for a valid u, normalize(u) is in exactly
\* one of the two sets.
C1_CrawledFailedDisjoint ==
    /\ crawledUrls \cap failedUrls = {}
    /\ \A c \in Callers :
          (SingleSeedBatch(c) /\ ret[c] = "stats")
             => LET n == normalize(call[c].seeds[1])
                IN (n \in crawledUrls) # (n \in failedUrls)

\* C2: at most one crawlUrl call passes the dedup check and starts fetching a
\* given normalized URL.
C2_FetchedAtMostOnce == \A u \in NormUrls : fetchStarts[u] <= 1

\* the page fetches in flight
InFlight == {c \in Callers : pc[c] = "fetch"}

\* C3: the number of page fetches in flight never exceeds maxConcurrency.
C3_ConcurrencyBound == Cardinality(InFlight) <= maxActiveCrawls

\* C4: a crawlUrl call whose fetch failed with a transient error fetches the URL
\* again, so a call that has returned with a transient fetch error as its last
\* error has made all maxRetries + 1 attempts.
C4_TransientRetried ==
    \A c \in Callers :
       (~Running(c) /\ obs[c].lastError = "transient" /\ ~obs[c].initFailed)
          => obs[c].attempts = maxRetries + 1

\* C5: a URL that ended permanently failed has had exactly one 'crawl-error'
\* event, and a URL that was crawled successfully has had none.
C5_OneErrorEvent ==
    \A u \in NormUrls :
       /\ (u \in failedUrls /\ ~\E c \in Callers : Running(c) /\ cur[c].norm = u)
             => errorEvents[u] = 1
       /\ (u \in contentStore /\ u \notin failedUrls) => errorEvents[u] = 0

\* C6: crawlBatch([seed], {maxDepth: 0}) stores at most the seed's document and
\* puts no child URL into the pending map.
C6_DepthZeroBatch ==
    \A c \in Callers :
       (SingleSeedBatch(c) /\ call[c].optMaxDepth = 0)
          => /\ \A i \in 1..Len(pendingUrls) : pendingUrls[i].depth = 0
             /\ contentStore \subseteq {normalize(call[c].seeds[1])}

\* the place of the dequeued entry in the pending map it was taken from
DeqIndex(d) == CHOOSE i \in 1..Len(d.before) : d.before[i].url = d.entry.url

\* C7: every dequeue of crawlBatch takes an entry of the pending map whose
\* priority is at least that of every other pending entry, the first inserted
\* among those of equal priority, and it happens only when the crawlUrl call for
\* the previously dequeued entry has returned.
C7_DequeueOrder ==
    \A c \in Callers :
       lastDeq[c] # NoDeq
          => LET d == lastDeq[c]
             IN /\ \E i \in 1..Len(d.before) : d.before[i] = d.entry
                /\ \A j \in 1..Len(d.before) :
                      /\ d.before[j].priority <= d.entry.priority
                      /\ j < DeqIndex(d) => d.before[j].priority < d.entry.priority
                /\ d.open = 0

\* C7 witness: a dequeue, after an earlier crawl of the batch has returned, from
\* a pending map that holds a later entry of the same priority and an earlier
\* entry of lower priority
C7_Witness ==
    \E c \in Callers :
       /\ lastDeq[c] # NoDeq
       /\ crawlStats.totalRequested >= 1
       /\ LET d == lastDeq[c]
          IN /\ \E j \in 1..Len(d.before) :
                   j > DeqIndex(d) /\ d.before[j].priority = d.entry.priority
             /\ \E j \in 1..Len(d.before) :
                   j < DeqIndex(d) /\ d.before[j].priority < d.entry.priority

\* a page fetch is begun by a crawlBatch in this step
BatchFetchBegins == \E c \in Callers : inBatch[c] /\ pc[c] # "fetch" /\ pc'[c] = "fetch"

\* C8: once close() has been called while a crawlBatch is running, no new page
\* fetch is started.
C8_NoFetchAfterStop == [][stopRequested => ~BatchFetchBegins]_vars

\* C9: crawlBatch returns its stats record; then the pending map is empty and
\* totalFailed is the number of failed URLs; and every URL crawlBatch dequeued
\* has been attempted once the crawlUrl call for it has returned.
C9_BatchReturns ==
    /\ \A c \in Callers : inBatch[c] ~> ret[c] = "stats"
    /\ [](\A c \in Callers :
             ret[c] = "stats"
                => /\ pendingUrls = <<>>
                   /\ stats[c].pendingUrls = 0
                   /\ stats[c].totalFailed = Cardinality(failedUrls))
    /\ [](\A c \in Callers :
             (inBatch[c] /\ ~Running(c) /\ cur[c] # NoFrame)
                => cur[c].norm \in crawledUrls)

\* C9 witness: a crawlBatch has returned after pages that were stored and
\* pages that failed
C9_Witness ==
    \E c \in Callers :
       /\ ret[c] = "stats"
       /\ stats[c].totalFailed >= 2
       /\ stats[c].totalPages >= 1

\* C10: when re-initialising the browser fails, the failure reaches the caller
\* as an error and the URL is not recorded as failed.
C10_InitFailurePropagates ==
    \A c \in Callers :
       obs[c].initFailed => (ret[c] = "threw" /\ cur[c].norm \notin failedUrls)

C12_DocumentFrequency ==
    \A t \in MapKeys(searchEngine.documentFrequency)
              \cup UNION {Range(searchEngine.index[i].value.terms) :
                             i \in 1..Len(searchEngine.index)} :
       (IF MapHas(searchEngine.documentFrequency, t)
        THEN MapGet(searchEngine.documentFrequency, t) ELSE 0)
          = Cardinality({i \in 1..Len(searchEngine.index) :
                            t \in Range(searchEngine.index[i].value.terms)})

\* C13: the total-document counter is the number of distinct document ids
\* indexed since the last clear.
C13_TotalDocuments == searchEngine.totalDocuments = Len(searchEngine.index)

\* C14: importIndex(exportIndex()) leaves the posting lists, the term
\* frequencies, the document frequencies, the document metadata and the
\* total-document count as they were, and a search made just before it returns
\* the same results in the same order and the same total when made again.
C14_RoundTrip ==
    [][lastOp' = "importIndex"
          => /\ searchEngine'.invertedIndex = searchEngine.invertedIndex
             /\ searchEngine'.termFrequency = searchEngine.termFrequency
             /\ searchEngine'.documentFrequency = searchEngine.documentFrequency
             /\ searchEngine'.index = searchEngine.index
             /\ searchEngine'.contentStore = searchEngine.contentStore
             /\ searchEngine'.totalDocuments = searchEngine.totalDocuments
             /\ lastOp = "search"
                   => search(searchEngine', searchCall.query, searchCall.options)
                         = searchCall.result]_vars

\* C14 witness: an index of two documents, one of them indexed twice, has been
\* exported and imported
C14_Witness ==
    /\ lastOp = "importIndex"
    /\ Len(searchEngine.index) = 2
    /\ searchEngine.totalDocuments = 3
    /\ Len(searchEngine.documentFrequency) >= 3

\* C15: search never throws, and for a missing, non-string or too short query
\* and for malformed options (null, or a limit that is no number) it returns an
\* empty results list and total 0 and leaves the index unchanged.
C15_SearchNeverThrows ==
    [][lastOp' = "search"
          => /\ ~searchCall'.result.thrown
             /\ searchEngine' = searchEngine
             /\ (\/ searchCall'.query.kind # "string"
                 \/ QueryLength(searchCall'.query) < defaultMinQueryLength
                 \/ searchCall'.options.isNull
                 \/ searchCall'.options.limitNaN)
                   => /\ searchCall'.result.results = <<>>
                      /\ searchCall'.result.total = 0]_vars

\* C16: for every limit and offset search returns at most maxLimit results, and
\* they are the elements at the positions offset .. offset + limit - 1 of the
\* full ranked list, the limit being the given one (the default limit when none
\* is given) clamped to maxLimit.
C16_Pagination ==
    (/\ lastOp = "search"
     /\ searchCall.query.kind = "string"
     /\ QueryLength(searchCall.query) >= searchEngine.minQueryLength
     /\ ~searchCall.options.isNull
     /\ ~searchCall.options.limitNaN)
       => LET ranked == mapResults(scoredResults(searchEngine, searchCall.query,
                                                 searchCall.options.filters))
              limit == Min(IF searchCall.options.limit # 0 THEN searchCall.options.limit
                           ELSE searchEngine.defaultLimit, searchEngine.maxLimit)
              first == searchCall.options.offset + 1
              positions == {p \in 1..Len(ranked) : p >= first /\ p < first + limit}
          IN /\ Len(searchCall.result.results) <= searchEngine.maxLimit
             /\ Len(searchCall.result.results) = Cardinality(positions)
             /\ \A k \in 1..Cardinality(positions) :
                   searchCall.result.results[k]
                      = ranked[CHOOSE p \in positions :
                                  Cardinality({q \in positions : q < p}) = k - 1]

\* C17: every search result has a strictly positive relevance score and
\* satisfies every supplied filter, the results are in non-increasing score
\* order, and total is the number of candidate documents that pass the filters
\* with a positive score, whatever offset and limit are.
C17_ResultsFilteredRanked ==
    (/\ lastOp = "search"
     /\ searchCall.query.kind = "string"
     /\ QueryLength(searchCall.query) >= searchEngine.minQueryLength
     /\ ~searchCall.options.isNull)
       => LET results == searchCall.result.results
              filters == searchCall.options.filters
              queryTerms == tokenize(searchCall.query.words)
              Doc(id) == MapGet(searchEngine.contentStore, id)
              Satisfies(id) ==
                 /\ filters.contentType # "" => Doc(id).contentType = filters.contentType
                 /\ filters.minQuality # 0 => Doc(id).qualityScore >= filters.minQuality
                 /\ (filters.maxAge # 0 /\ Doc(id).publishAge # -1)
                       => Doc(id).publishAge <= filters.maxAge
                 /\ filters.minWordCount # 0 => Doc(id).wordCount >= filters.minWordCount
                 /\ filters.topics # <<>>
                       => Range(filters.topics) \cap Range(Doc(id).topics) # {}
              Positive(id) ==
                 calculateRelevanceScore(searchEngine, id, queryTerms,
                                         MapGet(searchEngine.index, id), Doc(id)).num > 0
          IN /\ \A k \in 1..Len(results) :
                   /\ results[k].relevanceScore > 0
                   /\ Satisfies(results[k].contentId)
             /\ \A k \in 1..(Len(results) - 1) :
                   results[k].relevanceScore >= results[k + 1].relevanceScore
             /\ searchCall.result.total
                   = Cardinality({id \in Range(getCandidateDocuments(searchEngine, queryTerms)) :
                                     Satisfies(id) /\ Positive(id)})

\* C17, amended: every search result has a strictly positive score before the
\* rounding (the returned relevance score, rounded to two decimals, is not
\* negative) and satisfies every supplied filter, a document without a publish
\* date passing the maximum-age filter; the results are in non-increasing score
\* order, and total is the number of candidate documents that pass the filters
\* with a positive score, whatever offset and limit are.
C17_InternalScorePositive ==
    (/\ lastOp = "search"
     /\ searchCall.query.kind = "string"
     /\ QueryLength(searchCall.query) >= searchEngine.minQueryLength
     /\ ~searchCall.options.isNull)
       => LET results == searchCall.result.results
              filters == searchCall.options.filters
              queryTerms == tokenize(searchCall.query.words)
              Doc(id) == MapGet(searchEngine.contentStore, id)
              Satisfies(id) ==
                 /\ filters.contentType # "" => Doc(id).contentType = filters.contentType
                 /\ filters.minQuality # 0 => Doc(id).qualityScore >= filters.minQuality
                 /\ (filters.maxAge # 0 /\ Doc(id).publishAge # -1)
                       => Doc(id).publishAge <= filters.maxAge
                 /\ filters.minWordCount # 0 => Doc(id).wordCount >= filters.minWordCount
                 /\ filters.topics # <<>>
                       => Range(filters.topics) \cap Range(Doc(id).topics) # {}
              Positive(id) ==
                 calculateRelevanceScore(searchEngine, id, queryTerms,
                                         MapGet(searchEngine.index, id), Doc(id)).num > 0
          IN /\ \A k \in 1..Len(results) :
                   /\ results[k].relevanceScore >= 0
                   /\ Positive(results[k].contentId)
                   /\ Satisfies(results[k].contentId)
             /\ \A k \in 1..(Len(results) - 1) :
                   results[k].relevanceScore >= results[k + 1].relevanceScore
             /\ searchCall.result.total
                   = Cardinality({id \in Range(getCandidateDocuments(searchEngine, queryTerms)) :
                                     Satisfies(id) /\ Positive(id)})

\* C17 witness: a filtered search has returned two results while a third
\* candidate was held back by the filters
C17_Witness ==
    /\ lastOp = "search"
    /\ searchCall.options = MkOptions(2, 0, FiltersA)
    /\ Len(searchCall.result.results) = 2
    /\ searchCall.result.total = 2
    /\ Len(getCandidateDocuments(searchEngine, tokenize(searchCall.query.words))) = 3

\* C18: of two indexed documents that differ only in that one contains the
\* query phrase verbatim ("Running shoes") and the other has the same words in
\* another order, a search for the phrase ranks the one with the phrase first.
C18_ExactPhraseFirst ==
    (/\ lastOp = "search"
     /\ searchCall.query = StringQuery(<<"Running", "shoes">>)
     /\ ~searchCall.options.isNull)
       => LET ranked == scoredResults(searchEngine, searchCall.query,
                                      searchCall.options.filters)
              TextOf(content) ==
                 indexContent(NewSearchEngine(NoSearchConfig), "d1", content).index[1]
                    .value.allText
              HasText(id, content) ==
                 MapGet(searchEngine.index, id).allText = TextOf(content)
          IN \A i, j \in 1..Len(ranked) :
                (/\ HasText(ranked[i].contentId, DocRunA)
                 /\ HasText(ranked[j].contentId, DocRunB))
                   => i < j

\* C19: getSuggestions returns the first `limit` of the index terms that start
\* with the lower-cased partial query, in descending document-frequency order:
\* every returned term has the prefix, the list is in non-increasing
\* document-frequency order, no omitted matching term has a higher document
\* frequency than a returned one, and a partial query of fewer than 2
\* characters yields the empty list.
C19_SuggestionsByFrequency ==
    lastOp = "getSuggestions"
       => LET returned == suggestCall.result
              query == toLowerCase(suggestCall.partialQuery)
              frequency(t) == IF MapHas(searchEngine.documentFrequency, t)
                              THEN MapGet(searchEngine.documentFrequency, t) ELSE 0
              matching == {t \in MapKeys(searchEngine.invertedIndex) : startsWith(t, query)}
          IN IF StrLen(query) < 2 THEN returned = <<>>
             ELSE /\ Len(returned) = Min(suggestCall.limit, Cardinality(matching))
                  /\ Cardinality(Range(returned)) = Len(returned)
                  /\ Range(returned) \subseteq matching
                  /\ \A k \in 1..(Len(returned) - 1) :
                        frequency(returned[k]) >= frequency(returned[k + 1])
                  /\ \A t \in matching \ Range(returned) :
                        \A k \in 1..Len(returned) : frequency(t) <= frequency(returned[k])

\* C20: normalize is idempotent: for every URL whose normalization is not null,
\* normalizing the result again gives the same URL.
C20_NormalizeIdempotent ==
    (lastOp = "normalize" /\ normCall.result.valid)
       => normCall.again = normCall.result

\* C21: QualityScorer.calculate returns an integer from 0 to 100 for every
\* document, null and degenerate documents included, and each of the eight
\* sub-scores it combines is at most 100.
C21_ScoreBounds ==
    lastOp = "calculate"
       => /\ scoreCall.result \in 0..100
          /\ scoreCall.content.isNull => scoreCall.result = 0
          /\ \A i \in 1..Len(scoreCall.scores) : scoreCall.scores[i] <= 100 * scoreUnit

\* C21 witness: a document without headings, links, images and paragraphs,
\* with a negative word count and no publish date, whose weighted total is
\* negative, has been scored
C21_Witness ==
    /\ lastOp = "calculate"
    /\ ~scoreCall.content.isNull
    /\ scoreCall.content.headings = <<>>
    /\ scoreCall.content.paragraphs = <<>>
    /\ ~scoreCall.content.dated
    /\ weightedTotal(scoreCall.scores) < 0
    /\ scoreCall.result = 0

\* C22: the word-count sub-score is 0 at 0 words, 50 at 100 words and 100 at
\* 800 words and never decreases from one word count to the next below 800; it
\* never increases from 800 to 5000, where it is 80, and it is 80 above 5000.
C22_WordCountScore ==
    lastOp = "scoreWordCount"
       => /\ wordCountCall.wordCount < optimalWordCount
                => wordCountCall.next >= wordCountCall.score
          /\ wordCountCall.wordCount = 0 => wordCountCall.score = 0
          /\ wordCountCall.wordCount = minWordCount
                => wordCountCall.score = 50 * scoreUnit
          /\ wordCountCall.wordCount = optimalWordCount
                => wordCountCall.score = 100 * scoreUnit
          /\ (/\ wordCountCall.wordCount >= optimalWordCount
              /\ wordCountCall.wordCount < maxWordCount)
                => wordCountCall.next <= wordCountCall.score
          /\ wordCountCall.wordCount >= maxWordCount
                => wordCountCall.score = 80 * scoreUnit

\* C22 witness: the sub-score has been computed on both sides of the 100-word
\* boundary and on both sides of the 5000-word boundary
C22_Witness ==
    /\ lastOp = "scoreWordCount"
    /\ \/ /\ wordCountCall.wordCount = minWordCount - 1
          /\ wordCountCall.score < wordCountCall.next
       \/ /\ wordCountCall.wordCount = maxWordCount
          /\ wordCountCall.score = wordCountCall.next

C24_PendingNormalized ==
    /\ \A i \in 1..Len(pendingUrls) : pendingUrls[i].url = normalize(pendingUrls[i].url)
    /\ \A i, j \in 1..Len(pendingUrls) :
          normalize(pendingUrls[i].url) = normalize(pendingUrls[j].url) => i = j

\* C25: no pending entry and no page being fetched has a depth greater than
\* maxDepth.
C25_DepthBound ==
    /\ \A i \in 1..Len(pendingUrls) : pendingUrls[i].depth <= maxDepth
    /\ \A c \in Callers : pc[c] = "fetch" => cur[c].depth <= maxDepth

\* C26: a document is a candidate of a search, and so can be among its results,
\* only through a stored term that is a query term, or, with fuzzy search
\* enabled, through a stored term whose similarity to a query term of more than
\* 3 characters strictly exceeds 0.8; a stored term of similarity exactly 0.8
\* brings no document in.
C26_FuzzyStrictlyAbove ==
    lastOp = "search" =>
        \A k \in 1..Len(searchCall.result.results) :
           LET terms == Range(MapGet(searchEngine.index,
                                     searchCall.result.results[k].contentId).terms)
               queryTerms == Range(tokenize(searchCall.query.words))
           IN \E qt \in queryTerms :
                 \/ qt \in terms
                 \/ /\ searchEngine.enableFuzzySearch
                    /\ StrLen(qt) > 3
                    /\ \E t \in terms :
                          LET sim == calculateStringSimilarity(qt, t)
                          IN 10 * sim.num > 8 * sim.den

\* C27: a crawlUrl call that finds the browser missing or disconnected when it
\* is about to fetch calls init() first and fetches only with a connected
\* browser; a successful re-initialisation changes neither the pending map, the
\* crawled set, the failed set, the content store (with which the link graph is
\* written) nor the search index.
C27_ReinitKeepsState ==
    [][\A c \in Callers :
          /\ (pc[c] = "delay" /\ pc'[c] # "delay")
                => pc'[c] = (IF browser = "null" THEN "init" ELSE "fetch")
          /\ (pc[c] # "fetch" /\ pc'[c] = "fetch") => browser' = "connected"
          /\ (pc[c] = "init" /\ pc'[c] = "fetch")
                => /\ browser' = "connected"
                   /\ UNCHANGED <<pendingUrls, crawledUrls, failedUrls, contentStore,
                                  searchEngine>>]_vars

\* a batch crawl that has stored a page and holds pending URLs has found the
\* browser disconnected and has re-initialised it
C27_Witness ==
    \E c \in Callers :
       /\ pc[c] = "fetch"
       /\ obs[c].reinit
       /\ inBatch[c]
       /\ Len(pendingUrls) > 0
       /\ contentStore # {}
       /\ searchEngine.totalDocuments > 0

\* the crawlUrl calls that have acquired a slot (line 208) and have neither
\* returned nor given the slot back before a retry (line 339)
HoldingSlot == {c \in Callers : pc[c] \in {"init", "fetch", "closePage"}}

\* C28: activeCrawls equals the number of crawlUrl calls that have acquired a
\* slot and not yet finished; it is never negative, and it is 0 when no crawl
\* is in flight.
C28_ActiveCrawlsCount ==
    /\ activeCrawls = Cardinality(HoldingSlot)
    /\ activeCrawls >= 0
    /\ (\A c \in Callers : pc[c] \in {"idle", "done"}) => activeCrawls = 0

\* C29: on a crawler that has imported its own export, a crawlUrl call for a URL
\* that is not in the crawled set and whose page is fetched, extracted and
\* stored returns the document, counts it as completed, schedules its children
\* and leaves the failed set as it is.
C29_CrawlAfterImport ==
    [][\A c \in Callers :
          (/\ lastOp = "importData"
           /\ pc[c] = "fetch"
           /\ cur[c].norm \notin contentStore
           /\ cur[c].norm \in contentStore')
             => /\ ~inBatch[c] => ret'[c] = "content"
                /\ crawlStats'.totalCompleted = crawlStats.totalCompleted + 1
                /\ failedUrls' = failedUrls
                /\ pendingUrls' = IF cur[c].depth < maxDepth
                                  THEN scheduleChildUrls(pendingUrls, crawledUrls,
                                                         PageLinks(cur[c].norm),
                                                         cur[c].norm, cur[c].depth + 1)
                                  ELSE pendingUrls]_vars

\* C30: a single-page crawl (crawlUrl at depth 0 for a request with
\* followLinks = false) leaves the pending map as it was.
C30_SinglePageKeepsFrontier ==
    [][\A c \in Callers :
          (call[c].route /\ ~call[c].followLinks /\ pc[c] = "fetch" /\ pc'[c] = "done")
             => pendingUrls' = pendingUrls]_vars

====
